---------------------------- MODULE Spec2Model ----------------------------
(***************************************************************************)
(* OTP authentication routes of the job-matching backend                   *)
(* (src/routes/auth.js) over the users table of the relational schema.     *)
(*                                                                         *)
(* Every request handler is an async function: it runs atomically between  *)
(* two awaits, and every await on the store is a point where other         *)
(* requests and the clock may move.  One action below is one such segment  *)
(* of a handler, including the audit entries written around it.            *)
(*                                                                         *)
(* Nullable values are options: Null is SQL NULL / JS undefined, Some(v)   *)
(* a present value.  Time is in milliseconds (Date.now()).                 *)
(* Request mobiles are drawn from strings that fit users.mobile            *)
(* VARCHAR(15); request roles from the user_role enum.                     *)
(***************************************************************************)
EXTENDS Integers, Sequences, FiniteSets, TLC

Null == <<>>
Some(v) == <<v>>
Val(o) == o[1]

(* ------------------------------ bounds -------------------------------- *)
\* number of requests served in one run
MaxReqs == 2
\* Math.random() is drawn from {0/RandDenom, ..., (RandDenom-1)/RandDenom}
RandDenom == 2
\* the clock visits the instants k * OtpTtlMs + s, k <= MaxPeriods, s <= MaxSkew
MaxPeriods == 1
MaxSkew == 1
\* number of requests served in a run in which store and audit calls may fail
MaxFaultyReqs == 1
\* clients the pool can have checked out at once
PoolSize == 2
\* runQuery and logEvent calls one request makes
MaxCalls == 2
\* Math.random() is drawn from the multiples of 1 / (OtpSpan * RandScale) when
\* the codes it can yield are enumerated
RandScale == 1
\* addresses (req.ip) the rate limiters tell apart
MaxIps == 2
\* requests one address makes
MaxAsks == 6
\* the rate limiters' clock moves in steps of LimitStepMin minutes,
\* MaxLimitSteps times at most
LimitStepMin == 5
MaxLimitSteps == 2
\* jobs posted and applications made in one run
MaxJobs == 2
MaxApps == 2

Reqs == 1..MaxReqs
Clients == 1..PoolSize
\* the holder of a client that no request holds
Server == 0 - 1

(* ------------------------- program constants -------------------------- *)
\* auth.js:111  new Date(Date.now() + 10 * 60 * 1000)
OtpTtlMs == 10 * 60 * 1000
\* auth.js:286  expiresIn: "30d", in seconds as in the token's exp claim
TokenTtlSec == 30 * 24 * 60 * 60
\* auth.js:97  mobile.length < 10
MinMobileLen == 10
\* auth.js:366  bcrypt.hash(password, 10)
BcryptCost == 10
\* auth.js:14  Math.floor(100000 + Math.random() * 900000)
OtpBase == 100000
OtpSpan == 900000
\* unnamed/part_000:82  max: 100
GeneralMax == 100
\* unnamed/part_000:90  max: 5
OtpMax == 5

Instants == {k * OtpTtlMs + s : k \in 0..MaxPeriods, s \in 0..MaxSkew}

\* CREATE TYPE user_role AS ENUM ('candidate', 'employer', 'admin')
Roles == {"candidate", "employer", "admin"}

(* ------------------------------ inputs -------------------------------- *)
ShortMobile == "999999999"
Mobile1 == "9999999999"
Mobile2 == "8888888888"
ReqMobiles == {Null, Some(ShortMobile), Some(Mobile1), Some(Mobile2)}
\* "candidate" is what an omitted role defaults to
ReqRoles == {Null, Some("admin")}
\* process.env.NODE_ENV: the two modes the code names and one it does not
NodeEnvs == {"development", "production", "test"}
\* process.env at start-up: each required variable unset, empty or set
Envs == [DATABASE_URL : {Null, Some("postgres://store")},
         JWT_SECRET : {Null, Some(""), Some("configured-secret")}]
ReqEmails == {Null, Some("a@example.com")}
ReqPasswords == {Null, Some("secret")}
RandDraws == 0..(RandDenom - 1)

\* the values of Math.random(): k / Grid for k in 0..Grid-1, 0 included and 1
\* excluded
Grid == OtpSpan * RandScale
FineDraws == 0..(Grid - 1)

\* a generator that draws from 0 up and does not pad
OtpNumberFromZero(k) == k \div RandScale

\* auth.js:14  Math.floor(100000 + Math.random() * 900000) with Math.random()
\* = k / Grid: (k / (OtpSpan * RandScale)) * OtpSpan is k / RandScale, written
\* so because k * OtpSpan does not fit the checker's integers
OtpNumber(k) == OtpBase + k \div RandScale

\* auth.js:13-14  Math.floor(...).toString()
generateOTPAt(k) == ToString(OtpNumber(k))

\* auth.js:13  Math.floor(100000 + Math.random() * 900000).toString()
\* with Math.random() = u / RandDenom
generateOTP(u) == ToString((100000 * RandDenom + u * 900000) \div RandDenom)

WrongOtp == "000000"
ReqOtps == {Null, Some(WrongOtp)} \cup {Some(generateOTP(u)) : u \in RandDraws}

(* ------------------------------- state -------------------------------- *)
VARIABLES
    users,      \* the users table: a set of rows
    now,        \* the clock, Date.now()
    nodeEnv,    \* process.env.NODE_ENV
    pc,         \* pc[r]: where request r stands in its handler
    req,        \* req[r]: the request body
    loc,        \* loc[r]: the handler's local variables
    res,        \* res[r]: the HTTP response, Null until sent
    auth_logs,  \* auth_logs[r]: the auth_logs rows written by request r, in order
    issue,      \* history: issue[m] counts the OTP writes to mobile m's row
    seen        \* history: for a verify-otp request r, seen[r] is what the store
                \* held for its mobile at the lookup and when the expiry check
                \* ran; for a send-otp request, seen[r].issue numbers its write;
                \* seen[r].abort tells what threw into the handler's catch
                \* block: "store" a runQuery whose statement did not run,
                \* "audit" a runQuery whose statement ran, "log" a logEvent of
                \* the handler; seen[r].logRejected whether a logEvent call of
                \* the request rejected
VARIABLES
    console,    \* the lines the send-otp handler prints itself (auth.js:91, 156)
    env,        \* process.env as the process finds it when it starts
    proc        \* the server process: "starting", "serving" or "exited"

VARIABLES
    pool,       \* pool[s]: the request whose call holds client s, 0 when idle,
                \* Server when the start-up callback took it
    call,       \* call[r]: where request r stands in runQuery and in logEvent
    ledger      \* history: clients request r has acquired and released

VARIABLES
    drawn,      \* the draw and the code of one generateOTP() call, Null before
    listening   \* the callback of httpServer.listen: "pending", "connected"
                \* or "failed"

VARIABLES
    limitNow,   \* Date.now() as the rate limiters read it
    hits,       \* hits[l][ip]: the count and the reset time limiter l keeps for
                \* address ip
    answered,   \* answered[ip]: what the last request of ip met: "limited" (429),
                \* "handler" (handed to the send-otp handler) or "unrouted" (404)
    asked,      \* history: the number of requests ip has made
    reached     \* history: the instants at which a request of ip was handed to
                \* the send-otp handler, in order

\* the state of the rate limiters
limits == <<limitNow, hits, answered, asked, reached>>

VARIABLES
    jobs,         \* the jobs table: rows of id, employer_id, title and status
    applications, \* the applications table: rows of id, job_id, candidate_id
                  \* and status
    jobSeq,       \* the number of job ids generated so far
    appSeq,       \* the number of application ids generated so far
    lastCall      \* the last request to the job and application routes: its
                  \* route, req.user.userId, the id it named and the HTTP status
                  \* it was answered with

\* the state of the job and application routes
market == <<jobs, applications, jobSeq, appSeq, lastCall>>

\* what neither a request handler nor runQuery and logEvent write
aside == <<drawn, listening, limits, market>>

\* what no request handler writes
frame == <<env, proc, pool, call, ledger, aside>>

\* what the model of the pool leaves alone
handlers == <<users, now, nodeEnv, pc, req, loc, res, auth_logs, issue, seen,
              console, env, proc, aside>>

\* the state of the auth routes, the process and the pool
authstate == <<users, now, nodeEnv, pc, req, loc, res, auth_logs, issue, seen,
               console, env, proc, pool, call, ledger>>

vars == <<users, now, nodeEnv, pc, req, loc, res, auth_logs, issue, seen,
          console, frame>>

AllMobiles == {ShortMobile, Mobile1, Mobile2}

\* the addresses requests come from
Ips == 1..MaxIps

\* no request to the job and application routes yet
NoCallYet == [kind |-> "none", user |-> "", id |-> Null, code |-> 0]

\* unnamed/part_000:80, 87: the two rate limiters of the application
Limiters == {"general", "otp"}

\* what a limiter keeps for an address it has not seen
NoHits == [n |-> 0, resetAt |-> 0]

\* the requested role dropped
RoleIgnored(r) == "candidate"

\* req.body defaults (auth.js:92, 330): role = "candidate" when omitted
RoleOf(r) == IF req[r].role = Null THEN "candidate" ELSE Val(req[r].role)

NoReq == [kind |-> "none", mobile |-> Null, otp |-> Null, role |-> Null,
          email |-> Null, password |-> Null]
\* rq: where runQuery stands ("none" when not running), rqClient the client
\* it holds, threw whether it will rethrow; le, leClient: the same for
\* logEvent; n the calls the handler has made; ended whether it has returned
NoCall == [rq |-> "none", rqClient |-> 0, threw |-> FALSE,
           le |-> "none", leClient |-> 0, n |-> 0, ended |-> FALSE]
NoLoc == [otp |-> Null, otpExpiresAt |-> Null, existing |-> {}, user |-> Null]
NoSeen == [issue |-> Null, otp |-> Null, exp |-> Null, verified |-> Null,
           checkedAt |-> Null, abort |-> Null, logRejected |-> FALSE]

\* one row of auth_logs (auth.js:45-49)
LogRow(userId, mobile, role, step, status, message) ==
    [user_id |-> userId, mobile |-> mobile, user_role |-> role,
     step |-> step, status |-> status, message |-> message]

\* how a template literal or console.log prints a value that may be absent
Show(v, absent) == IF v = Null THEN absent ELSE Val(v)

\* auth.js:36-41: the line logEvent prints for an entry:
\* [timestamp] [STATUS] [role] [mobile || "N/A"] (ip) step -> message
ConsoleLine(e) == <<e.status, e.user_role, Show(e.mobile, "N/A"), e.step, e.message>>

\* auth.js:91  console.log(req.body)
BodyLine(body) == <<"body", Show(body.mobile, "undefined"), Show(body.role, "undefined")>>

\* a runQuery entry that carries the tag of the operation instead of its step
QueryLogUntagged(mobile, role, step, ok) ==
    LogRow(Null, mobile, role, "SEND_OTP",
           IF ok THEN "success" ELSE "error",
           IF ok THEN "Query executed" ELSE "duplicate key value")

\* runQuery's own entry after the query ran (auth.js:62-70, 73-82)
QueryLog(mobile, role, step, ok) ==
    LogRow(Null, mobile, role, step,
           IF ok THEN "success" ELSE "error",
           IF ok THEN "Query executed" ELSE "duplicate key value")

Response(status, error) ==
    [status |-> status, error |-> error, otp |-> Null, token |-> Null,
     user |-> Null, profileCompleted |-> Null, redirectTo |-> Null,
     success |-> Null, message |-> Null]

(* --------------------------- the users table -------------------------- *)
UserRow(id, mobile, email, hash, role, verified, otp, exp) ==
    [id |-> id, mobile |-> mobile, email |-> email, password_hash |-> hash,
     role |-> role, is_active |-> TRUE, is_verified |-> verified,
     otp |-> otp, otp_expires_at |-> exp]

RowsOf(m) == {u \in users : u.mobile = m}

\* id UUID PRIMARY KEY DEFAULT gen_random_uuid(): a fresh id (rows are never deleted)
NewId == Cardinality(users) + 1

\* a table without its UNIQUE constraints
NoUniqueViolation(row) == FALSE

(* mobile VARCHAR(15) UNIQUE NOT NULL, email VARCHAR(255) UNIQUE NULL *)
UniqueViolation(row) ==
    \/ \E u \in users : u.mobile = row.mobile
    \/ row.email # Null /\ \E u \in users : u.email = row.email

\* rows of the store at start-up: the table outlives the process, so it may
\* already hold an identity for Mobile1 in any state the routes leave one in
SeedRows ==
    {UserRow(1, Mobile1, Null, Null, "employer", FALSE, Some(generateOTP(0)), Some(OtpTtlMs)),
     UserRow(1, Mobile1, Null, Null, "employer", TRUE, Null, Null)}

Init ==
    /\ users \in ({{}} \cup {{u} : u \in SeedRows})
    /\ now = 0
    /\ nodeEnv \in NodeEnvs
    /\ pc = [r \in Reqs |-> "idle"]
    /\ req = [r \in Reqs |-> NoReq]
    /\ loc = [r \in Reqs |-> NoLoc]
    /\ res = [r \in Reqs |-> Null]
    /\ auth_logs = [r \in Reqs |-> <<>>]
    /\ issue = [m \in AllMobiles |-> 0]
    /\ seen = [r \in Reqs |-> NoSeen]
    /\ console = {}
    /\ env \in Envs
    /\ proc = "starting"
    /\ pool = [s \in Clients |-> 0]
    /\ call = [r \in Reqs |-> NoCall]
    /\ ledger = [r \in Reqs |-> [acquired |-> 0, released |-> 0]]
    /\ drawn = Null
    /\ listening = "pending"
    /\ limitNow = 0
    /\ hits = [l \in Limiters |-> [ip \in Ips |-> NoHits]]
    /\ answered = [ip \in Ips |-> "none"]
    /\ asked = [ip \in Ips |-> 0]
    /\ reached = [ip \in Ips |-> <<>>]
    /\ jobs = {}
    /\ applications = {}
    /\ jobSeq = 0
    /\ appSeq = 0
    /\ lastCall = NoCallYet

(* ------------------------------ start-up ------------------------------ *)
\* JavaScript's !value for an environment variable: unset or empty
Falsy(v) == v = Null \/ v = Some("")

\* a start-up check that asks for the store's address only
validateEnvStoreOnly == {key \in {"DATABASE_URL"} : Falsy(env[key])}

\* socket/handlers.js:28-30: requiredVars.filter((key) => !process.env[key])
validateEnv == {key \in {"DATABASE_URL", "JWT_SECRET"} : Falsy(env[key])}

\* unnamed/part_000:21-22 and socket/handlers.js:31-34: validateEnv() runs
\* before the app is created; process.exit(1) when a variable is missing
Startup ==
    /\ proc = "starting"
    /\ proc' = IF validateEnv # {} THEN "exited" ELSE "serving"
    /\ UNCHANGED <<users, now, nodeEnv, pc, req, loc, res, auth_logs, issue, seen,
                   console, env, pool, call, ledger, aside>>

\* auth.js:10: the secret used when JWT_SECRET is unset or empty
FallbackSecret == "your-secret-key-change-in-production"

\* auth.js:9-10  process.env.JWT_SECRET || "your-secret-key-change-in-production"
JWT_SECRET == IF Falsy(env["JWT_SECRET"]) THEN FallbackSecret ELSE Val(env["JWT_SECRET"])

\* a request is taken once the server listens; request slots are
\* interchangeable: they are taken in order
CanStart(r) ==
    /\ proc = "serving"
    /\ pc[r] = "idle" /\ (IF r = 1 THEN TRUE ELSE pc[r - 1] # "idle")

\* an answer whose audit write replaces what the request had logged so far
FinishOverwriting(r, response, entries) ==
    /\ pc' = [pc EXCEPT ![r] = "done"]
    /\ res' = [res EXCEPT ![r] = Some(response)]
    /\ auth_logs' = [auth_logs EXCEPT ![r] = entries]

Finish(r, response, entries) ==
    /\ pc' = [pc EXCEPT ![r] = "done"]
    /\ res' = [res EXCEPT ![r] = Some(response)]
    /\ auth_logs' = [auth_logs EXCEPT ![r] = @ \o entries]

(* ============================ POST /send-otp =========================== *)
\* a validation that only asks for a mobile to be present
MobileAbsent(mobile) == mobile = Null

\* auth.js:97
InvalidMobile(mobile) == mobile = Null \/ Len(Val(mobile)) < MinMobileLen

\* a code that expires the moment it is issued
OtpExpiresAtOnce(t) == t

\* auth.js:111  new Date(Date.now() + 10 * 60 * 1000)
OtpExpiresAt(t) == t + OtpTtlMs

\* auth.js:90-117: validation, code generation, existence check
SendOtpCheckUser(r) ==
    /\ CanStart(r)
    /\ \E mobile \in ReqMobiles, role \in ReqRoles, u \in RandDraws :
        LET body == [NoReq EXCEPT !.kind = "send", !.mobile = mobile,
                                  !.role = role]
            ro == IF role = Null THEN "candidate" ELSE Val(role)
        IN  /\ req' = [req EXCEPT ![r] = body]
            /\ console' = console \cup {BodyLine(body)}
            /\ IF InvalidMobile(mobile)
               THEN /\ Finish(r, Response(400, Some("Valid mobile number required")),
                              <<LogRow(Null, mobile, ro, "SEND_OTP", "warning",
                                       "Invalid mobile number")>>)
                    /\ UNCHANGED loc
               ELSE /\ loc' = [loc EXCEPT ![r] =
                           [NoLoc EXCEPT !.otp = Some(generateOTP(u)),
                                         !.otpExpiresAt = Some(OtpExpiresAt(now)),
                                         !.existing = {x.id : x \in RowsOf(Val(mobile))}]]
                    /\ pc' = [pc EXCEPT ![r] = "send_write"]
                    /\ auth_logs' = [auth_logs EXCEPT ![r] =
                           @ \o <<QueryLog(mobile, ro, "SEND_OTP_CHECK_USER", TRUE)>>]
                    /\ UNCHANGED res
    /\ UNCHANGED <<users, now, nodeEnv, issue, seen, frame>>

\* a response that tells a created identity from an updated one
SendOtpResponseCreated(r) ==
    [Response(IF loc[r].existing = {} THEN 201 ELSE 200, Null) EXCEPT
        !.otp = IF nodeEnv = "development" THEN loc[r].otp ELSE Null]

\* a response that echoes the code in every mode but production
SendOtpResponseOutsideProduction(r) ==
    [Response(200, Null) EXCEPT
        !.otp = IF nodeEnv # "production" THEN loc[r].otp ELSE Null]

\* auth.js:155-163
SendOtpResponse(r) ==
    [Response(200, Null) EXCEPT
        !.otp = IF nodeEnv = "development" THEN loc[r].otp ELSE Null]

\* auth.js:155-157  console.log(`OTP for ${mobile}: ${otp}`) in development
OtpNotice(r) ==
    IF nodeEnv = "development"
    THEN {<<"OTP for", Val(req[r].mobile), Val(loc[r].otp)>>}
    ELSE {}

\* auth.js:155-163: the notice on the console, then the response
SendOtpRespond(r, entries) ==
    /\ console' = console \cup OtpNotice(r)
    /\ Finish(r, SendOtpResponse(r), entries)

\* auth.js:164-176
SendOtpFailed(r) ==
    <<LogRow(Null, req[r].mobile, RoleOf(r), "SEND_OTP", "error", "Failed to send OTP")>>

\* an UPDATE that keeps a code the row already holds
SetOtpIfNone(mobile, otp, exp) ==
    {IF u.mobile = mobile /\ u.otp = Null
     THEN [u EXCEPT !.otp = otp, !.otp_expires_at = exp]
     ELSE u : u \in users}

\* an UPDATE that also resets is_verified
SetOtpUnverify(mobile, otp, exp) ==
    {IF u.mobile = mobile
     THEN [u EXCEPT !.otp = otp, !.otp_expires_at = exp, !.is_verified = FALSE]
     ELSE u : u \in users}

\* an UPDATE that also resets the role to the default
SetOtpResetRole(mobile, otp, exp) ==
    {IF u.mobile = mobile
     THEN [u EXCEPT !.otp = otp, !.otp_expires_at = exp, !.role = "candidate"]
     ELSE u : u \in users}

\* auth.js:121  UPDATE users SET otp = $1, otp_expires_at = $2 WHERE mobile = $3
SetOtp(mobile, otp, exp) ==
    {IF u.mobile = mobile
     THEN [u EXCEPT !.otp = otp, !.otp_expires_at = exp]
     ELSE u : u \in users}

\* auth.js:119-134: the update branch
SendOtpUpdate(r) ==
    LET m == Val(req[r].mobile)
        id == CHOOSE x \in loc[r].existing : TRUE
    IN  /\ users' = SetOtp(m, loc[r].otp, loc[r].otpExpiresAt)
        /\ issue' = [issue EXCEPT ![m] = IF RowsOf(m) # {} THEN @ + 1 ELSE @]
        /\ seen' = [seen EXCEPT ![r].issue =
                        IF RowsOf(m) # {} THEN Some(issue[m] + 1) ELSE Null]
        /\ SendOtpRespond(r,
                  <<QueryLog(req[r].mobile, RoleOf(r), "SEND_OTP_UPDATE_OTP", TRUE),
                    LogRow(Some(id), req[r].mobile, RoleOf(r), "SEND_OTP", "success",
                           "OTP updated for existing user")>>)

\* auth.js:135-153: INSERT INTO users ... VALUES (mobile, role, otp, expiry, true, false)
SendOtpInsert(r) ==
    LET m == Val(req[r].mobile)
        row == UserRow(NewId, m, Null, Null, RoleOf(r), FALSE,
                       loc[r].otp, loc[r].otpExpiresAt)
    IN  IF UniqueViolation(row)
        THEN /\ UNCHANGED <<users, issue, seen, console>>
             /\ Finish(r, Response(500, Some("Failed to send OTP")),
                       <<QueryLog(req[r].mobile, RoleOf(r), "SEND_OTP_INSERT_USER", FALSE)>>
                       \o SendOtpFailed(r))
        ELSE /\ users' = users \cup {row}
             /\ issue' = [issue EXCEPT ![m] = @ + 1]
             /\ seen' = [seen EXCEPT ![r].issue = Some(issue[m] + 1)]
             /\ SendOtpRespond(r,
                       <<QueryLog(req[r].mobile, RoleOf(r), "SEND_OTP_INSERT_USER", TRUE),
                         LogRow(Some(row.id), req[r].mobile, RoleOf(r), "SEND_OTP",
                                "success", "New user created and OTP assigned")>>)

\* auth.js:119-163: the write, the top-level entry and the response
SendOtpWrite(r) ==
    /\ pc[r] = "send_write"
    /\ IF loc[r].existing # {} THEN SendOtpUpdate(r) ELSE SendOtpInsert(r)
    /\ UNCHANGED <<now, nodeEnv, req, loc, frame>>

(* =========================== POST /verify-otp ========================== *)
\* auth.js:283-287  jwt.sign({userId, mobile, role}, JWT_SECRET, {expiresIn: "30d"})
SignToken(user) ==
    [userId |-> user.id, mobile |-> user.mobile, role |-> user.role,
     exp |-> (now \div 1000) + TokenTtlSec, key |-> JWT_SECRET]

\* a lookup that ignores the submitted code
SelectByMobileOnly(mobile, otp) == {u \in users : u.mobile = mobile}

\* auth.js:199-203  SELECT * FROM users WHERE mobile = $1 AND otp = $2
SelectByMobileAndOtp(mobile, otp) ==
    {u \in users : u.mobile = mobile /\ u.otp = Some(otp)}

\* what the store holds for the mobile when the lookup runs
Stored(mobile) ==
    IF RowsOf(mobile) = {}
    THEN [NoSeen EXCEPT !.issue = Some(issue[mobile])]
    ELSE LET u == CHOOSE x \in RowsOf(mobile) : TRUE
         IN  [NoSeen EXCEPT !.issue = Some(issue[mobile]), !.otp = u.otp,
                             !.exp = u.otp_expires_at,
                             !.verified = Some(u.is_verified)]

\* auth.js:180-216: validation and the lookup of the row matching mobile and code
VerifyOtpCheck(r) ==
    /\ CanStart(r)
    /\ \E mobile \in ReqMobiles, otp \in ReqOtps :
        /\ req' = [req EXCEPT ![r] = [NoReq EXCEPT !.kind = "verify",
                                         !.mobile = mobile, !.otp = otp]]
        /\ IF mobile = Null \/ otp = Null
           THEN /\ Finish(r, Response(400, Some("Mobile and OTP required")),
                          <<LogRow(Null, mobile, "unknown", "VERIFY_OTP", "warning",
                                   "Missing mobile or OTP")>>)
                /\ UNCHANGED <<loc, seen>>
           ELSE LET rows == SelectByMobileAndOtp(Val(mobile), Val(otp))
                    checked == QueryLog(mobile, "unknown", "VERIFY_OTP_CHECK", TRUE)
                IN  /\ seen' = [seen EXCEPT ![r] = Stored(Val(mobile))]
                    /\ IF rows = {}
                       THEN /\ Finish(r, Response(400, Some("Invalid OTP")),
                                      <<checked,
                                        LogRow(Null, mobile, "unknown", "VERIFY_OTP",
                                               "warning", "Invalid OTP")>>)
                            /\ UNCHANGED loc
                       ELSE /\ loc' = [loc EXCEPT ![r] =
                                   [NoLoc EXCEPT !.user = Some(CHOOSE u \in rows : TRUE)]]
                            /\ pc' = [pc EXCEPT ![r] = "verify_expiry"]
                            /\ auth_logs' = [auth_logs EXCEPT ![r] = @ \o <<checked>>]
                            /\ UNCHANGED res
    /\ UNCHANGED <<users, now, nodeEnv, issue, console, frame>>

\* new Date(user.otp_expires_at): a NULL timestamp reads as the epoch
ExpiryMs(user) ==
    IF user.otp_expires_at = Null THEN 0 ELSE Val(user.otp_expires_at)

\* a code already expired at its expiry instant
ExpiredAtExpiry(user) == ExpiryMs(user) <= now

\* no expiry check at all
NeverExpired(user) == FALSE

\* auth.js:218  new Date(user.otp_expires_at) < new Date()
Expired(user) == ExpiryMs(user) < now

\* an expiry check that throws the expired code away before it answers
VerifyOtpExpiryClearing(r) ==
    /\ pc[r] = "verify_expiry"
    /\ seen' = [seen EXCEPT ![r].checkedAt = Some(now)]
    /\ IF Expired(Val(loc[r].user))
       THEN /\ users' = {IF u.id = Val(loc[r].user).id
                         THEN [u EXCEPT !.otp = Null, !.otp_expires_at = Null]
                         ELSE u : u \in users}
            /\ Finish(r, Response(400, Some("OTP expired")),
                      <<LogRow(Null, req[r].mobile, "unknown", "VERIFY_OTP", "warning",
                               "OTP expired")>>)
       ELSE /\ pc' = [pc EXCEPT ![r] = "verify_update"]
            /\ UNCHANGED <<users, res, auth_logs>>
    /\ UNCHANGED <<now, nodeEnv, req, loc, issue, console, frame>>

\* auth.js:218-228: the expiry check, once the lookup's audit entry is written
VerifyOtpExpiry(r) ==
    /\ pc[r] = "verify_expiry"
    /\ seen' = [seen EXCEPT ![r].checkedAt = Some(now)]
    /\ IF Expired(Val(loc[r].user))
       THEN Finish(r, Response(400, Some("OTP expired")),
                   <<LogRow(Null, req[r].mobile, "unknown", "VERIFY_OTP", "warning",
                            "OTP expired")>>)
       ELSE /\ pc' = [pc EXCEPT ![r] = "verify_update"]
            /\ UNCHANGED <<res, auth_logs>>
    /\ UNCHANGED <<users, now, nodeEnv, req, loc, issue, console, frame>>

\* an UPDATE that sets is_verified and leaves the code in place
MarkVerifiedKeepCode(id) ==
    {IF u.id = id THEN [u EXCEPT !.is_verified = TRUE] ELSE u : u \in users}

\* an UPDATE that clears the code and leaves its expiry behind
MarkVerifiedKeepExpiry(id) ==
    {IF u.id = id THEN [u EXCEPT !.is_verified = TRUE, !.otp = Null] ELSE u : u \in users}

\* auth.js:232  UPDATE users SET is_verified = true, otp = NULL,
\*              otp_expires_at = NULL WHERE id = $1
MarkVerified(id) ==
    {IF u.id = id
     THEN [u EXCEPT !.is_verified = TRUE, !.otp = Null, !.otp_expires_at = Null]
     ELSE u : u \in users}

\* auth.js:230-235
VerifyOtpUpdate(r) ==
    /\ pc[r] = "verify_update"
    /\ users' = MarkVerified(Val(loc[r].user).id)
    /\ pc' = [pc EXCEPT ![r] = "verify_finish"]
    /\ auth_logs' = [auth_logs EXCEPT ![r] =
           @ \o <<QueryLog(req[r].mobile, Val(loc[r].user).role,
                           "VERIFY_OTP_UPDATE_VERIFIED", TRUE)>>]
    /\ UNCHANGED <<now, nodeEnv, req, loc, res, issue, seen, console, frame>>

\* a hint that sends everyone to the dashboard of the role
RedirectToDashboard(role, hasProfile) == Some("/" \o role \o "/dashboard")

\* auth.js:268-280
RedirectTo(role, hasProfile) ==
    IF role = "candidate"
    THEN Some(IF hasProfile THEN "/candidate/dashboard" ELSE "/candidate/profile-form")
    ELSE IF role = "employer"
    THEN Some(IF hasProfile THEN "/employer/dashboard" ELSE "/employer/profile-form")
    ELSE IF role = "admin"
    THEN Some("/admin/dashboard")
    ELSE Null

\* auth.js:237-266: the profile tables belong to the profile routes; the
\* lookup finds a profile or not.  No lookup for admin: hasProfile stays false
ProfileLookups(role) ==
    IF role \in {"candidate", "employer"} THEN BOOLEAN ELSE {FALSE}

\* auth.js:302-313
VerifyOtpResponse(user, hasProfile) ==
    [Response(200, Null) EXCEPT
        !.token = Some(SignToken(user)),
        !.user = Some([id |-> user.id, mobile |-> user.mobile,
                       role |-> user.role, isVerified |-> TRUE]),
        !.profileCompleted = Some(hasProfile),
        !.redirectTo = RedirectTo(user.role, hasProfile)]

\* auth.js:246, 258: the step tag of the profile lookup
ProfileStep(role) ==
    IF role = "candidate" THEN "VERIFY_OTP_CHECK_CANDIDATE_PROFILE"
    ELSE "VERIFY_OTP_CHECK_EMPLOYER_PROFILE"

\* auth.js:290-299
VerifyOtpSucceeded(r, user) ==
    LogRow(Some(user.id), req[r].mobile, user.role, "VERIFY_OTP", "success",
           "OTP verified successfully")

\* auth.js:237-313: profile lookup, redirect hint, token, audit entry, response
VerifyOtpFinish(r) ==
    /\ pc[r] = "verify_finish"
    /\ LET user == Val(loc[r].user)
       IN  \E hasProfile \in ProfileLookups(user.role) :
            Finish(r, VerifyOtpResponse(user, hasProfile),
                   (IF user.role \in {"candidate", "employer"}
                    THEN <<QueryLog(req[r].mobile, user.role,
                                    ProfileStep(user.role), TRUE)>>
                    ELSE <<>>)
                   \o <<VerifyOtpSucceeded(r, user)>>)
    /\ UNCHANGED <<users, now, nodeEnv, req, loc, issue, seen, console, frame>>

(* ============================ POST /register =========================== *)
\* auth.js:366  password ? await bcrypt.hash(password, 10) : null
PasswordHash(password) ==
    IF password = Null THEN Null ELSE Some(<<"bcrypt", BcryptCost, Val(password)>>)

\* auth.js:329-364: validation and the existence check
RegisterCheckExisting(r) ==
    /\ CanStart(r)
    /\ \E mobile \in ReqMobiles, email \in ReqEmails, password \in ReqPasswords,
          role \in ReqRoles :
        LET ro == IF role = Null THEN "candidate" ELSE Val(role)
        IN  /\ req' = [req EXCEPT ![r] = [NoReq EXCEPT !.kind = "register",
                           !.mobile = mobile, !.email = email,
                           !.password = password, !.role = role]]
            /\ IF mobile = Null
               THEN /\ Finish(r, Response(400, Some("Mobile number required")),
                              <<LogRow(Null, mobile, ro, "REGISTER", "warning",
                                       "Mobile number missing")>>)
                    /\ UNCHANGED loc
               ELSE LET existing == {x.id : x \in RowsOf(Val(mobile))}
                        checked == QueryLog(mobile, ro, "REGISTER_CHECK_EXISTING", TRUE)
                    IN  IF existing # {}
                        THEN /\ Finish(r, Response(400, Some("User already exists")),
                                       <<checked,
                                         LogRow(Null, mobile, ro, "REGISTER", "warning",
                                                "User already exists")>>)
                             /\ UNCHANGED loc
                        ELSE /\ loc' = [loc EXCEPT ![r] = NoLoc]
                             /\ pc' = [pc EXCEPT ![r] = "register_insert"]
                             /\ auth_logs' = [auth_logs EXCEPT ![r] = @ \o <<checked>>]
                             /\ UNCHANGED res
    /\ UNCHANGED <<users, now, nodeEnv, issue, seen, console, frame>>

\* a registration that creates the identity already verified
RegisterRowVerified(r) ==
    UserRow(NewId, Val(req[r].mobile), req[r].email,
            PasswordHash(req[r].password), RoleOf(r), TRUE, Null, Null)

\* auth.js:368-374: the row of INSERT INTO users (mobile, email, password_hash,
\* role, is_active, is_verified) VALUES ($1, $2, $3, $4, true, false)
RegisterRow(r) ==
    UserRow(NewId, Val(req[r].mobile), req[r].email,
            PasswordHash(req[r].password), RoleOf(r), FALSE, Null, Null)

\* auth.js:376-394
RegisterResponse(row) ==
    [Response(201, Null) EXCEPT
        !.token = Some(SignToken(row)),
        !.user = Some([id |-> row.id, mobile |-> row.mobile,
                       email |-> row.email, role |-> row.role])]

\* auth.js:366-408: INSERT INTO users (mobile, email, password_hash, role, true, false)
RegisterInsert(r) ==
    /\ pc[r] = "register_insert"
    /\ LET row == RegisterRow(r)
       IN  IF UniqueViolation(row)
           THEN /\ UNCHANGED users
                /\ Finish(r, Response(500, Some("Registration failed")),
                          <<QueryLog(req[r].mobile, RoleOf(r), "REGISTER_INSERT_USER", FALSE),
                            LogRow(Null, req[r].mobile, RoleOf(r), "REGISTER", "error",
                                   "Registration failed")>>)
           ELSE /\ users' = users \cup {row}
                /\ Finish(r, RegisterResponse(row),
                          <<QueryLog(req[r].mobile, RoleOf(r), "REGISTER_INSERT_USER", TRUE),
                            LogRow(Some(row.id), req[r].mobile, RoleOf(r), "REGISTER",
                                   "success", "Registration successful")>>)
    /\ UNCHANGED <<now, nodeEnv, req, loc, issue, seen, console, frame>>

(* =============================== clock ================================ *)
\* time passes between any two steps, by any amount
Tick ==
    /\ \E t \in Instants :
        /\ t > now
        /\ now' = t
    /\ UNCHANGED <<users, nodeEnv, pc, req, loc, res, auth_logs, issue, seen, console, frame>>

Next ==
    \/ \E r \in Reqs : SendOtpCheckUser(r)
    \/ \E r \in Reqs : SendOtpWrite(r)
    \/ \E r \in Reqs : VerifyOtpCheck(r)
    \/ \E r \in Reqs : VerifyOtpExpiry(r)
    \/ \E r \in Reqs : VerifyOtpUpdate(r)
    \/ \E r \in Reqs : VerifyOtpFinish(r)
    \/ \E r \in Reqs : RegisterCheckExisting(r)
    \/ \E r \in Reqs : RegisterInsert(r)
    \/ Tick
    \/ Startup

Spec == Init /\ [][Next]_vars

(* ======================================================================= *)
(*            the same handlers when the store or the audit fails          *)
(* ======================================================================= *)
\* pool.connect() can reject and client.query() can reject, in runQuery and in
\* logEvent alike; "none" is the call that works
StoreFaults == {"none", "connect", "query"}
LogFaults == {"none", "connect", "insert"}

\* auth.js:25-55: pool.connect() is awaited before the try block, so its
\* rejection is the rejection of logEvent; a failed INSERT is caught and
\* reported on the console only
logEvent(entry, f) ==
    [rejected |-> f = "connect",
     rows |-> IF f = "none" THEN <<entry>> ELSE <<>>,
     fault |-> f]

LogEventOutcomes(entry) == {logEvent(entry, f) : f \in LogFaults}

\* runQuery's error entry: message is err.message (auth.js:77)
QueryFailed(mobile, role, step, message) ==
    LogRow(Null, mobile, role, step, "error", message)

\* auth.js:57-87: q is what happens to the store call, f what happens to the
\* logEvent of the try block, g to the logEvent of the catch block; ran tells
\* whether the statement was executed by the store
runQuery(mobile, role, step, refused, q, f, g) ==
    IF q = "connect"
    THEN [threw |-> TRUE, ran |-> FALSE, rows |-> <<>>, rejected |-> FALSE,
          faulty |-> TRUE]
    ELSE IF q = "query" \/ refused
    THEN LET l == logEvent(QueryFailed(mobile, role, step,
                       IF q = "query" THEN "query failed" ELSE "duplicate key value"), g)
         IN  [threw |-> TRUE, ran |-> FALSE, rows |-> l.rows,
              rejected |-> l.rejected, faulty |-> q = "query" \/ l.fault # "none"]
    ELSE LET l == logEvent(QueryLog(mobile, role, step, TRUE), f)
         IN  IF ~l.rejected
             THEN [threw |-> FALSE, ran |-> TRUE, rows |-> l.rows,
                   rejected |-> FALSE, faulty |-> l.fault # "none"]
             ELSE LET k == logEvent(QueryFailed(mobile, role, step,
                                        "connection failed"), g)
                  IN  [threw |-> TRUE, ran |-> TRUE, rows |-> k.rows,
                       rejected |-> TRUE, faulty |-> TRUE]

RunQueryOutcomes(mobile, role, step, refused) ==
    {runQuery(mobile, role, step, refused, q, f, g) :
        q \in StoreFaults, f \in LogFaults, g \in LogFaults}

\* the handler goes on, or answers, after a segment in which a call failed
\* without throwing; note is the request's history so far
Noted(r, note, rejected) ==
    seen' = [seen EXCEPT ![r] = [note EXCEPT !.logRejected = @ \/ rejected]]

\* the error of pool.connect() as the global error handler reports it
ConnectError == "pool.connect() failed"

\* unnamed/part_000:127-133: the global error handler, for an error without a
\* status: 500 and { success: false, message: err.message }
GlobalErrorResponse(message) ==
    [Response(500, Null) EXCEPT !.success = Some(FALSE), !.message = Some(message)]

\* the catch block of a handler (auth.js:164-176, 314-325, 396-407): one error
\* entry, then the 500; when that logEvent rejects, the handler's promise
\* rejects and the handler sends no response. What becomes of the rejected
\* promise is the router's business: a router that does not look at the value
\* a handler returns leaves the request unanswered, a router that forwards a
\* rejected promise to the error handlers has the global error handler answer
Catch(r, mobile, role, step, message, entries, note, abort, rejected) ==
    \E c \in LogEventOutcomes(LogRow(Null, mobile, role, step, "error", message)) :
        /\ seen' = [seen EXCEPT ![r] =
               [note EXCEPT !.abort = Some(abort),
                            !.logRejected = @ \/ rejected \/ c.rejected]]
        /\ IF c.rejected
           THEN /\ auth_logs' = [auth_logs EXCEPT ![r] = @ \o entries]
                /\ \/ /\ pc' = [pc EXCEPT ![r] = "rejected"]
                      /\ UNCHANGED res
                   \/ /\ pc' = [pc EXCEPT ![r] = "done"]
                      /\ res' = [res EXCEPT ![r] = Some(GlobalErrorResponse(ConnectError))]
           ELSE Finish(r, Response(500, Some(message)), entries \o c.rows)

\* who made runQuery throw
Culprit(o) == IF o.ran THEN "audit" ELSE "store"

\* auth.js:90-117 with a failing call
SendOtpCheckUserFaulty(r) ==
    /\ CanStart(r)
    /\ \E mobile \in ReqMobiles, role \in ReqRoles, u \in RandDraws :
        LET body == [NoReq EXCEPT !.kind = "send", !.mobile = mobile,
                                  !.role = role]
            ro == IF role = Null THEN "candidate" ELSE Val(role)
        IN  /\ req' = [req EXCEPT ![r] = body]
            /\ console' = console \cup {BodyLine(body)}
            /\ IF InvalidMobile(mobile)
               THEN \E w \in LogEventOutcomes(LogRow(Null, mobile, ro, "SEND_OTP",
                                                    "warning", "Invalid mobile number")) :
                        /\ w.fault # "none"
                        /\ UNCHANGED loc
                        /\ IF w.rejected
                           THEN Catch(r, mobile, ro, "SEND_OTP", "Failed to send OTP",
                                      <<>>, NoSeen, "log", TRUE)
                           ELSE /\ Finish(r, Response(400,
                                            Some("Valid mobile number required")), w.rows)
                                /\ Noted(r, NoSeen, FALSE)
               ELSE \E o \in RunQueryOutcomes(mobile, ro, "SEND_OTP_CHECK_USER", FALSE) :
                        /\ o.faulty
                        /\ IF o.threw
                           THEN /\ Catch(r, mobile, ro, "SEND_OTP", "Failed to send OTP",
                                         o.rows, NoSeen, Culprit(o), o.rejected)
                                /\ UNCHANGED loc
                           ELSE /\ loc' = [loc EXCEPT ![r] =
                                       [NoLoc EXCEPT !.otp = Some(generateOTP(u)),
                                                     !.otpExpiresAt = Some(OtpExpiresAt(now)),
                                                     !.existing = {x.id : x \in RowsOf(Val(mobile))}]]
                                /\ pc' = [pc EXCEPT ![r] = "send_write"]
                                /\ auth_logs' = [auth_logs EXCEPT ![r] = @ \o o.rows]
                                /\ Noted(r, NoSeen, FALSE)
                                /\ UNCHANGED res
    /\ UNCHANGED <<users, now, nodeEnv, issue, frame>>

\* auth.js:119-163 with a failing call
SendOtpWriteFaulty(r) ==
    /\ pc[r] = "send_write"
    /\ LET m == Val(req[r].mobile)
           update == loc[r].existing # {}
           row == UserRow(NewId, m, Null, Null, RoleOf(r), FALSE,
                          loc[r].otp, loc[r].otpExpiresAt)
           id == IF update THEN CHOOSE x \in loc[r].existing : TRUE ELSE row.id
           written == IF update THEN RowsOf(m) # {} ELSE TRUE
       IN  \E o \in RunQueryOutcomes(req[r].mobile, RoleOf(r),
                        IF update THEN "SEND_OTP_UPDATE_OTP" ELSE "SEND_OTP_INSERT_USER",
                        ~update /\ UniqueViolation(row)) :
            LET note == IF o.ran /\ written
                        THEN [seen[r] EXCEPT !.issue = Some(issue[m] + 1)]
                        ELSE seen[r]
            IN  /\ users' = IF ~o.ran THEN users
                            ELSE IF update
                            THEN SetOtp(m, loc[r].otp, loc[r].otpExpiresAt)
                            ELSE users \cup {row}
                /\ issue' = [issue EXCEPT ![m] = IF o.ran /\ written THEN @ + 1 ELSE @]
                /\ IF o.threw
                   THEN /\ o.faulty
                        /\ Catch(r, req[r].mobile, RoleOf(r), "SEND_OTP",
                                 "Failed to send OTP", o.rows, note, Culprit(o), o.rejected)
                        /\ UNCHANGED console
                   ELSE \E t \in LogEventOutcomes(
                               LogRow(Some(id), req[r].mobile, RoleOf(r), "SEND_OTP", "success",
                                      IF update THEN "OTP updated for existing user"
                                      ELSE "New user created and OTP assigned")) :
                            /\ o.faulty \/ t.fault # "none"
                            /\ IF t.rejected
                               THEN /\ Catch(r, req[r].mobile, RoleOf(r), "SEND_OTP",
                                             "Failed to send OTP", o.rows, note, "log", TRUE)
                                    /\ UNCHANGED console
                               ELSE /\ SendOtpRespond(r, o.rows \o t.rows)
                                    /\ Noted(r, note, FALSE)
    /\ UNCHANGED <<now, nodeEnv, req, loc, frame>>

\* auth.js:180-216 with a failing call
VerifyOtpCheckFaulty(r) ==
    /\ CanStart(r)
    /\ \E mobile \in ReqMobiles, otp \in ReqOtps :
        /\ req' = [req EXCEPT ![r] = [NoReq EXCEPT !.kind = "verify",
                                         !.mobile = mobile, !.otp = otp]]
        /\ IF mobile = Null \/ otp = Null
           THEN \E w \in LogEventOutcomes(LogRow(Null, mobile, "unknown", "VERIFY_OTP",
                                                "warning", "Missing mobile or OTP")) :
                    /\ w.fault # "none"
                    /\ UNCHANGED loc
                    /\ IF w.rejected
                       THEN Catch(r, mobile, "unknown", "VERIFY_OTP",
                                  "Failed to verify OTP", <<>>, NoSeen, "log", TRUE)
                       ELSE /\ Finish(r, Response(400, Some("Mobile and OTP required")),
                                      w.rows)
                            /\ Noted(r, NoSeen, FALSE)
           ELSE \E o \in RunQueryOutcomes(mobile, "unknown", "VERIFY_OTP_CHECK", FALSE) :
                    LET rows == SelectByMobileAndOtp(Val(mobile), Val(otp))
                        note == IF o.ran THEN Stored(Val(mobile)) ELSE NoSeen
                    IN  IF o.threw
                        THEN /\ o.faulty
                             /\ Catch(r, mobile, "unknown", "VERIFY_OTP",
                                      "Failed to verify OTP", o.rows, note, Culprit(o),
                                      o.rejected)
                             /\ UNCHANGED loc
                        ELSE IF rows = {}
                        THEN \E w \in LogEventOutcomes(LogRow(Null, mobile, "unknown",
                                          "VERIFY_OTP", "warning", "Invalid OTP")) :
                                /\ o.faulty \/ w.fault # "none"
                                /\ UNCHANGED loc
                                /\ IF w.rejected
                                   THEN Catch(r, mobile, "unknown", "VERIFY_OTP",
                                              "Failed to verify OTP", o.rows, note,
                                              "log", TRUE)
                                   ELSE /\ Finish(r, Response(400, Some("Invalid OTP")),
                                                  o.rows \o w.rows)
                                        /\ Noted(r, note, FALSE)
                        ELSE /\ o.faulty
                             /\ loc' = [loc EXCEPT ![r] =
                                    [NoLoc EXCEPT !.user = Some(CHOOSE x \in rows : TRUE)]]
                             /\ pc' = [pc EXCEPT ![r] = "verify_expiry"]
                             /\ auth_logs' = [auth_logs EXCEPT ![r] = @ \o o.rows]
                             /\ Noted(r, note, FALSE)
                             /\ UNCHANGED res
    /\ UNCHANGED <<users, now, nodeEnv, issue, console, frame>>

\* auth.js:218-228 with a failing logEvent
VerifyOtpExpiryFaulty(r) ==
    /\ pc[r] = "verify_expiry"
    /\ Expired(Val(loc[r].user))
    /\ LET note == [seen[r] EXCEPT !.checkedAt = Some(now)]
       IN  \E w \in LogEventOutcomes(LogRow(Null, req[r].mobile, "unknown", "VERIFY_OTP",
                                           "warning", "OTP expired")) :
            /\ w.fault # "none"
            /\ IF w.rejected
               THEN Catch(r, req[r].mobile, "unknown", "VERIFY_OTP",
                          "Failed to verify OTP", <<>>, note, "log", TRUE)
               ELSE /\ Finish(r, Response(400, Some("OTP expired")), w.rows)
                    /\ Noted(r, note, FALSE)
    /\ UNCHANGED <<users, now, nodeEnv, req, loc, issue, console, frame>>

\* auth.js:230-235 with a failing call
VerifyOtpUpdateFaulty(r) ==
    /\ pc[r] = "verify_update"
    /\ LET user == Val(loc[r].user)
       IN  \E o \in RunQueryOutcomes(req[r].mobile, user.role,
                                    "VERIFY_OTP_UPDATE_VERIFIED", FALSE) :
            /\ o.faulty
            /\ users' = IF o.ran THEN MarkVerified(user.id) ELSE users
            /\ IF o.threw
               THEN Catch(r, req[r].mobile, "unknown", "VERIFY_OTP",
                          "Failed to verify OTP", o.rows, seen[r], Culprit(o), o.rejected)
               ELSE /\ pc' = [pc EXCEPT ![r] = "verify_finish"]
                    /\ auth_logs' = [auth_logs EXCEPT ![r] = @ \o o.rows]
                    /\ Noted(r, seen[r], FALSE)
                    /\ UNCHANGED res
    /\ UNCHANGED <<now, nodeEnv, req, loc, issue, console, frame>>

\* auth.js:237-325 with a failing call
VerifyOtpFinishFaulty(r) ==
    /\ pc[r] = "verify_finish"
    /\ LET user == Val(loc[r].user)
           lookup == user.role \in {"candidate", "employer"}
       IN  \E o \in (IF lookup
                     THEN RunQueryOutcomes(req[r].mobile, user.role,
                                           ProfileStep(user.role), FALSE)
                     ELSE {[threw |-> FALSE, ran |-> FALSE, rows |-> <<>>,
                            rejected |-> FALSE, faulty |-> FALSE]}) :
            IF o.threw
            THEN Catch(r, req[r].mobile, "unknown", "VERIFY_OTP",
                       "Failed to verify OTP", o.rows, seen[r], Culprit(o), o.rejected)
            ELSE \E hasProfile \in ProfileLookups(user.role) :
                 \E t \in LogEventOutcomes(VerifyOtpSucceeded(r, user)) :
                    /\ o.faulty \/ t.fault # "none"
                    /\ IF t.rejected
                       THEN Catch(r, req[r].mobile, "unknown", "VERIFY_OTP",
                                  "Failed to verify OTP", o.rows, seen[r], "log", TRUE)
                       ELSE /\ Finish(r, VerifyOtpResponse(user, hasProfile),
                                      o.rows \o t.rows)
                            /\ Noted(r, seen[r], FALSE)
    /\ UNCHANGED <<users, now, nodeEnv, req, loc, issue, console, frame>>

\* auth.js:329-364 with a failing call
RegisterCheckExistingFaulty(r) ==
    /\ CanStart(r)
    /\ \E mobile \in ReqMobiles, email \in ReqEmails, password \in ReqPasswords,
          role \in ReqRoles :
        LET ro == IF role = Null THEN "candidate" ELSE Val(role)
        IN  /\ req' = [req EXCEPT ![r] = [NoReq EXCEPT !.kind = "register",
                           !.mobile = mobile, !.email = email,
                           !.password = password, !.role = role]]
            /\ UNCHANGED loc
            /\ IF mobile = Null
               THEN \E w \in LogEventOutcomes(LogRow(Null, mobile, ro, "REGISTER",
                                                    "warning", "Mobile number missing")) :
                        /\ w.fault # "none"
                        /\ IF w.rejected
                           THEN Catch(r, mobile, ro, "REGISTER", "Registration failed",
                                      <<>>, NoSeen, "log", TRUE)
                           ELSE /\ Finish(r, Response(400, Some("Mobile number required")),
                                          w.rows)
                                /\ Noted(r, NoSeen, FALSE)
               ELSE \E o \in RunQueryOutcomes(mobile, ro, "REGISTER_CHECK_EXISTING", FALSE) :
                        IF o.threw
                        THEN /\ o.faulty
                             /\ Catch(r, mobile, ro, "REGISTER", "Registration failed",
                                      o.rows, NoSeen, Culprit(o), o.rejected)
                        ELSE IF RowsOf(Val(mobile)) # {}
                        THEN \E w \in LogEventOutcomes(LogRow(Null, mobile, ro, "REGISTER",
                                          "warning", "User already exists")) :
                                /\ o.faulty \/ w.fault # "none"
                                /\ IF w.rejected
                                   THEN Catch(r, mobile, ro, "REGISTER",
                                              "Registration failed", o.rows, NoSeen,
                                              "log", TRUE)
                                   ELSE /\ Finish(r, Response(400,
                                                    Some("User already exists")),
                                                  o.rows \o w.rows)
                                        /\ Noted(r, NoSeen, FALSE)
                        ELSE /\ o.faulty
                             /\ pc' = [pc EXCEPT ![r] = "register_insert"]
                             /\ auth_logs' = [auth_logs EXCEPT ![r] = @ \o o.rows]
                             /\ Noted(r, NoSeen, FALSE)
                             /\ UNCHANGED res
    /\ UNCHANGED <<users, now, nodeEnv, issue, console, frame>>

\* auth.js:366-408 with a failing call
RegisterInsertFaulty(r) ==
    /\ pc[r] = "register_insert"
    /\ LET row == RegisterRow(r)
       IN  \E o \in RunQueryOutcomes(req[r].mobile, RoleOf(r), "REGISTER_INSERT_USER",
                                    UniqueViolation(row)) :
            /\ users' = IF o.ran THEN users \cup {row} ELSE users
            /\ IF o.threw
               THEN /\ o.faulty
                    /\ Catch(r, req[r].mobile, RoleOf(r), "REGISTER",
                             "Registration failed", o.rows, seen[r], Culprit(o), o.rejected)
               ELSE \E t \in LogEventOutcomes(LogRow(Some(row.id), req[r].mobile, RoleOf(r),
                                 "REGISTER", "success", "Registration successful")) :
                        /\ o.faulty \/ t.fault # "none"
                        /\ IF t.rejected
                           THEN Catch(r, req[r].mobile, RoleOf(r), "REGISTER",
                                      "Registration failed", o.rows, seen[r], "log", TRUE)
                           ELSE /\ Finish(r, RegisterResponse(row), o.rows \o t.rows)
                                /\ Noted(r, seen[r], FALSE)
    /\ UNCHANGED <<now, nodeEnv, req, loc, issue, console, frame>>

\* requests served in a run in which calls may fail
FaultyReqs == 1..MaxFaultyReqs

NextFaulty ==
    \/ \E r \in FaultyReqs : SendOtpCheckUser(r)
    \/ \E r \in FaultyReqs : SendOtpWrite(r)
    \/ \E r \in FaultyReqs : VerifyOtpCheck(r)
    \/ \E r \in FaultyReqs : VerifyOtpExpiry(r)
    \/ \E r \in FaultyReqs : VerifyOtpUpdate(r)
    \/ \E r \in FaultyReqs : VerifyOtpFinish(r)
    \/ \E r \in FaultyReqs : RegisterCheckExisting(r)
    \/ \E r \in FaultyReqs : RegisterInsert(r)
    \/ \E r \in FaultyReqs : SendOtpCheckUserFaulty(r)
    \/ \E r \in FaultyReqs : SendOtpWriteFaulty(r)
    \/ \E r \in FaultyReqs : VerifyOtpCheckFaulty(r)
    \/ \E r \in FaultyReqs : VerifyOtpExpiryFaulty(r)
    \/ \E r \in FaultyReqs : VerifyOtpUpdateFaulty(r)
    \/ \E r \in FaultyReqs : VerifyOtpFinishFaulty(r)
    \/ \E r \in FaultyReqs : RegisterCheckExistingFaulty(r)
    \/ \E r \in FaultyReqs : RegisterInsertFaulty(r)
    \/ Tick
    \/ Startup

SpecFaulty == Init /\ [][NextFaulty]_vars

(* ======================================================================= *)
(*          runQuery and logEvent, await by await, on a shared pool        *)
(* ======================================================================= *)
Free == {s \in Clients : pool[s] = 0}

\* the handler is between two calls
Between(r) ==
    /\ proc = "serving"
    /\ call[r].rq = "none" /\ call[r].le = "none" /\ ~call[r].ended

\* a handler awaits runQuery(...) (auth.js:113, 120, 136, 199, 231, 241, 254,
\* 348, 368)
HandlerRunQuery(r) ==
    /\ Between(r) /\ call[r].n < MaxCalls
    /\ call' = [call EXCEPT ![r].rq = "connect", ![r].threw = FALSE, ![r].n = @ + 1]
    /\ UNCHANGED <<handlers, pool, ledger>>

\* a handler awaits logEvent(...) (auth.js:98, 125, 143, 165, 187, 207, 219,
\* 290, 315, 336, 354, 383, 396)
HandlerLogEvent(r) ==
    /\ Between(r) /\ call[r].n < MaxCalls
    /\ call' = [call EXCEPT ![r].le = "connect", ![r].n = @ + 1]
    /\ UNCHANGED <<handlers, pool, ledger>>

\* the handler returns, or its promise rejects
HandlerEnds(r) ==
    /\ Between(r) /\ call[r].n > 0
    /\ call' = [call EXCEPT ![r].ended = TRUE]
    /\ UNCHANGED <<handlers, pool, ledger>>

\* pool.connect() resolves with an idle client; with none idle it waits
Acquire(r, s) ==
    /\ pool' = [pool EXCEPT ![s] = r]
    /\ ledger' = [ledger EXCEPT ![r].acquired = @ + 1]

\* client.release()
Release(r, s) ==
    /\ pool' = [pool EXCEPT ![s] = 0]
    /\ ledger' = [ledger EXCEPT ![r].released = @ + 1]

\* auth.js:59  const client = await pool.connect()
RunQueryConnect(r) ==
    /\ call[r].rq = "connect"
    /\ \E s \in Free :
        /\ \A x \in Free : s <= x
        /\ Acquire(r, s)
        /\ call' = [call EXCEPT ![r].rq = "query", ![r].rqClient = s]
    /\ UNCHANGED handlers

\* auth.js:59: pool.connect() rejects, outside the try block: runQuery throws
\* holding nothing
RunQueryConnectRejects(r) ==
    /\ call[r].rq = "connect"
    /\ call' = [call EXCEPT ![r].rq = "none"]
    /\ UNCHANGED <<handlers, pool, ledger>>

\* auth.js:61-82: client.query() settles; the try block goes on to
\* logEvent(success), the catch block to logEvent(error)
RunQueryQuery(r) ==
    /\ call[r].rq = "query"
    /\ \E ok \in BOOLEAN :
        call' = [call EXCEPT ![r].rq = IF ok THEN "try_log" ELSE "catch_log",
                             ![r].threw = ~ok,
                             ![r].le = "connect"]
    /\ UNCHANGED <<handlers, pool, ledger>>

\* where the caller of logEvent goes on once logEvent has settled (auth.js:62-86):
\* a rejection in the try block enters the catch block, which calls logEvent
\* again; anything else in runQuery leads to the finally block
AfterLogEvent(c, rejected) ==
    IF c.rq = "try_log" /\ rejected
    THEN [c EXCEPT !.rq = "catch_log", !.threw = TRUE, !.le = "connect", !.leClient = 0]
    ELSE IF c.rq \in {"try_log", "catch_log"}
    THEN [c EXCEPT !.rq = "finally", !.le = "none", !.leClient = 0]
    ELSE [c EXCEPT !.le = "none", !.leClient = 0]

\* auth.js:43  const client = await pool.connect()
LogEventConnect(r) ==
    /\ call[r].le = "connect"
    /\ \E s \in Free :
        /\ \A x \in Free : s <= x
        /\ Acquire(r, s)
        /\ call' = [call EXCEPT ![r].le = "insert", ![r].leClient = s]
    /\ UNCHANGED handlers

\* auth.js:43: pool.connect() rejects, outside the try block: logEvent rejects
\* holding nothing
LogEventConnectRejects(r) ==
    /\ call[r].le = "connect"
    /\ call' = [call EXCEPT ![r] = AfterLogEvent(call[r], TRUE)]
    /\ UNCHANGED <<handlers, pool, ledger>>

\* a logEvent whose failed INSERT leaves the function without releasing
LogEventInsertLeaking(r) ==
    /\ call[r].le = "insert"
    /\ \E ok \in BOOLEAN :
        call' = [call EXCEPT ![r] = IF ok THEN [@ EXCEPT !.le = "finally"]
                                    ELSE AfterLogEvent(@, TRUE)]
    /\ UNCHANGED <<handlers, pool, ledger>>

\* auth.js:44-52: the INSERT settles; its failure is caught and printed
LogEventInsert(r) ==
    /\ call[r].le = "insert"
    /\ call' = [call EXCEPT ![r].le = "finally"]
    /\ UNCHANGED <<handlers, pool, ledger>>

\* auth.js:52-54: finally { client.release() }, then logEvent resolves
LogEventRelease(r) ==
    /\ call[r].le = "finally"
    /\ Release(r, call[r].leClient)
    /\ call' = [call EXCEPT ![r] = AfterLogEvent(call[r], FALSE)]
    /\ UNCHANGED handlers

\* auth.js:84-86: finally { client.release() }, then runQuery returns the rows
\* or rethrows
RunQueryRelease(r) ==
    /\ call[r].rq = "finally"
    /\ Release(r, call[r].rqClient)
    /\ call' = [call EXCEPT ![r].rq = "none", ![r].rqClient = 0]
    /\ UNCHANGED handlers

\* unnamed/part_000:137-148: the callback of httpServer.listen awaits
\* pool.connect(), keeps no reference to the client and never releases it; a
\* rejection is printed and the server keeps listening
ListenCallback ==
    /\ proc = "serving" /\ listening = "pending"
    /\ \/ /\ \E s \in Free :
                /\ \A x \in Free : s <= x
                /\ pool' = [pool EXCEPT ![s] = Server]
          /\ listening' = "connected"
       \/ /\ listening' = "failed"
          /\ UNCHANGED pool
    /\ UNCHANGED <<users, now, nodeEnv, pc, req, loc, res, auth_logs, issue, seen,
                   console, env, proc, call, ledger, drawn, limits, market>>

InitPool ==
    /\ Init
    /\ users = {}
    /\ nodeEnv = "production"
    /\ validateEnv = {}

NextPool ==
    \/ Startup
    \/ ListenCallback
    \/ \E r \in Reqs : HandlerRunQuery(r)
    \/ \E r \in Reqs : HandlerLogEvent(r)
    \/ \E r \in Reqs : HandlerEnds(r)
    \/ \E r \in Reqs : RunQueryConnect(r)
    \/ \E r \in Reqs : RunQueryConnectRejects(r)
    \/ \E r \in Reqs : RunQueryQuery(r)
    \/ \E r \in Reqs : LogEventConnect(r)
    \/ \E r \in Reqs : LogEventConnectRejects(r)
    \/ \E r \in Reqs : LogEventInsert(r)
    \/ \E r \in Reqs : LogEventRelease(r)
    \/ \E r \in Reqs : RunQueryRelease(r)

SpecPool == InitPool /\ [][NextPool]_vars

(* ======================================================================= *)
(*                    generateOTP over every draw                          *)
(* ======================================================================= *)
\* auth.js:110  const otp = generateOTP(), once, for any value of Math.random()
GenerateOTP ==
    /\ proc = "serving"
    /\ drawn = Null
    /\ \E k \in FineDraws :
        drawn' = Some([k |-> k, n |-> OtpNumber(k), otp |-> generateOTPAt(k)])
    /\ UNCHANGED <<authstate, listening, limits, market>>

NextOtp ==
    \/ Startup
    \/ GenerateOTP

SpecOtp == InitPool /\ [][NextOtp]_vars

(* ======================================================================= *)
(*                 the rate limiters and the mounted routes                *)
(* ======================================================================= *)
\* unnamed/part_000:81  windowMs: 15 * 60 * 1000
GeneralWindowMs == 15 * 60 * 1000
\* unnamed/part_000:89  windowMs: 10 * 60 * 1000
OtpWindowMs == 10 * 60 * 1000

\* a path is the sequence of its segments
\* unnamed/part_000:85  app.use("/api/", generalLimiter)
GeneralMount == <<"api">>
\* unnamed/part_000:93  app.use("/api/auth/send-otp", otpLimiter)
OtpMount == <<"api", "auth", "send-otp">>
\* unnamed/part_000:96  app.use("/api/v1/auth", authRoutes)
AuthMount == <<"api", "v1", "auth">>
\* auth.js:90  router.post("/send-otp", ...)
SendOtpRoute == <<"send-otp">>

\* the paths clients post to: the route as it is served, and the path the
\* OTP limiter is mounted on
PostedPaths == {AuthMount \o SendOtpRoute, OtpMount}

\* app.use(mount, ...): the middleware runs for the paths that begin with the
\* segments of mount
Mounted(mount, path) ==
    /\ Len(mount) <= Len(path)
    /\ SubSeq(path, 1, Len(mount)) = mount

\* one request counted by rateLimit({ windowMs, ... }): the first request of
\* an address, and the first after its window ran out, opens a new window
Hit(entry, windowMs, t) ==
    IF entry.n = 0 \/ t >= entry.resetAt
    THEN [n |-> 1, resetAt |-> t + windowMs]
    ELSE [n |-> entry.n + 1, resetAt |-> entry.resetAt]

\* the instants of the limiters' clock
LimitStepMs == LimitStepMin * 60 * 1000

\* unnamed/part_000:79-96: a POST to path from address ip goes through the
\* middleware in the order of the app.use calls: the general limiter, the OTP
\* limiter, the auth router; a limiter that has counted more than max
\* requests in the window answers 429 and the request goes no further
Post(ip, path) ==
    /\ proc = "serving"
    /\ asked[ip] < MaxAsks
    /\ LET atGeneral == Mounted(GeneralMount, path)
           g == IF atGeneral THEN Hit(hits["general"][ip], GeneralWindowMs, limitNow)
                ELSE hits["general"][ip]
           pastGeneral == ~(atGeneral /\ g.n > GeneralMax)
           atOtp == pastGeneral /\ Mounted(OtpMount, path)
           o == IF atOtp THEN Hit(hits["otp"][ip], OtpWindowMs, limitNow)
                ELSE hits["otp"][ip]
           pastOtp == pastGeneral /\ ~(atOtp /\ o.n > OtpMax)
           routed == pastOtp /\ path = AuthMount \o SendOtpRoute
       IN  /\ hits' = [hits EXCEPT !["general"][ip] = g, !["otp"][ip] = o]
           /\ answered' = [answered EXCEPT ![ip] =
                  IF ~pastOtp THEN "limited"
                  ELSE IF routed THEN "handler" ELSE "unrouted"]
           /\ reached' = [reached EXCEPT ![ip] =
                  IF routed THEN Append(@, limitNow) ELSE @]
    /\ asked' = [asked EXCEPT ![ip] = @ + 1]
    /\ UNCHANGED <<authstate, drawn, listening, limitNow, market>>

\* time passes between requests
LimitTick ==
    /\ proc = "serving"
    /\ limitNow < MaxLimitSteps * LimitStepMs
    /\ limitNow' = limitNow + LimitStepMs
    /\ UNCHANGED <<authstate, drawn, listening, hits, answered, asked, reached,
                   market>>

NextLimit ==
    \/ Startup
    \/ LimitTick
    \/ \E ip \in Ips, path \in PostedPaths : Post(ip, path)

SpecLimit == InitPool /\ [][NextLimit]_vars

(* ======================================================================= *)
(*                     the job and application routes                      *)
(* ======================================================================= *)
\* the users whose token carries the role employer (checkRole(["employer"])):
\* two that have created their employer profile and one that has not
EmployerUsers == {"employer1", "employer2", "employer3"}

\* the users whose token carries the role candidate (checkRole(["candidate"]))
CandidateUsers == {"candidate1", "candidate2"}

\* migration:157-160: the rows of employer_profiles, user_id UNIQUE
employer_profiles ==
    {[id |-> "profile1", user_id |-> "employer1"],
     [id |-> "profile2", user_id |-> "employer2"]}

\* migration:111-114: the rows of candidate_profiles, user_id UNIQUE
candidate_profiles ==
    {[id |-> "cprofile1", user_id |-> "candidate1"]}

\* the ids a request can name
JobIds == 1..MaxJobs
AppIds == 1..MaxApps

\* migration:254-276: a row of jobs, in the columns id, employer_id, title,
\* status
JobRow(id, employer_id, title, status) ==
    [id |-> id, employer_id |-> employer_id, title |-> title, status |-> status]

\* migration:382-396: a row of applications, in the columns id, job_id,
\* candidate_id, status
ApplicationRow(id, job_id, candidate_id, status) ==
    [id |-> id, job_id |-> job_id, candidate_id |-> candidate_id, status |-> status]

\* the bodies of PATCH /jobs/:id: any subset of the columns title and status
JobUpdates == [title : {Null, Some("Fitter")}, status : {Null, Some("closed")}]

\* the status a PATCH /applications/:id/status carries, if any
StatusUpdates == {Null, Some("shortlisted"), Some("rejected")}

\* SELECT id FROM <profiles> WHERE user_id = $1
ProfilesOf(profiles, userId) == {p \in profiles : p.user_id = userId}

Called(kind, userId, id, code) ==
    lastCall' = [kind |-> kind, user |-> userId, id |-> id, code |-> code]

\* skill.js:387-498  POST /jobs: the job is inserted for the employer profile
\* of req.user.userId
PostJob(userId) ==
    /\ proc = "serving"
    /\ LET empResult == ProfilesOf(employer_profiles, userId)
       IN  IF empResult = {}
           THEN /\ Called("post", userId, Null, 404)
                /\ UNCHANGED <<jobs, jobSeq>>
           ELSE /\ jobSeq < MaxJobs
                /\ \E p \in empResult :
                     jobs' = jobs \cup {JobRow(jobSeq + 1, p.id, "Welder", "active")}
                /\ jobSeq' = jobSeq + 1
                /\ Called("post", userId, Some(jobSeq + 1), 201)
    /\ UNCHANGED <<authstate, drawn, listening, limits, applications, appSeq>>

\* application.js:10-75  POST /applications
ApplyToJob(userId, job_id) ==
    /\ proc = "serving"
    /\ LET candidateRes == ProfilesOf(candidate_profiles, userId)
       IN  IF job_id = Null
           THEN /\ Called("apply", userId, job_id, 400)
                /\ UNCHANGED <<applications, appSeq>>
           ELSE IF candidateRes = {}
           THEN /\ Called("apply", userId, job_id, 404)
                /\ UNCHANGED <<applications, appSeq>>
           ELSE \E c \in candidateRes :
                IF \E a \in applications :
                       a.job_id = Val(job_id) /\ a.candidate_id = c.id
                THEN /\ Called("apply", userId, job_id, 400)
                     /\ UNCHANGED <<applications, appSeq>>
                ELSE IF ~\E j \in jobs : j.id = Val(job_id)
                \* job_id REFERENCES jobs(id): the INSERT fails
                THEN /\ Called("apply", userId, job_id, 500)
                     /\ UNCHANGED <<applications, appSeq>>
                ELSE /\ appSeq < MaxApps
                     /\ applications' = applications \cup
                            {ApplicationRow(appSeq + 1, Val(job_id), c.id, "applied")}
                     /\ appSeq' = appSeq + 1
                     /\ Called("apply", userId, job_id, 201)
    /\ UNCHANGED <<authstate, drawn, listening, limits, jobs, jobSeq>>

\* employer.js:184-251  PATCH /employer/applications/:id/status:
\* UPDATE applications SET ... WHERE id = $n, for any employer
UpdateApplicationStatus(userId, id, status) ==
    /\ proc = "serving"
    /\ LET rows == {a \in applications : a.id = id}
           updated == {IF status # Null THEN [a EXCEPT !.status = Val(status)] ELSE a :
                          a \in rows}
       IN  /\ applications' = (applications \ rows) \cup updated
           /\ Called("status", userId, Some(id), IF rows = {} THEN 404 ELSE 200)
    /\ UNCHANGED <<authstate, drawn, listening, limits, jobs, jobSeq, appSeq>>

\* skill.js:596-634  PATCH /jobs/:id: UPDATE jobs SET <the body's columns>
\* WHERE id = $n, for any employer
UpdateJob(userId, id, updates) ==
    /\ proc = "serving"
    /\ LET rows == {j \in jobs : j.id = id}
           updated == {[j EXCEPT
                           !.title = IF updates.title # Null
                                     THEN Val(updates.title) ELSE @,
                           !.status = IF updates.status # Null
                                      THEN Val(updates.status) ELSE @] : j \in rows}
       IN  /\ jobs' = (jobs \ rows) \cup updated
           /\ Called("update", userId, Some(id), IF rows = {} THEN 404 ELSE 200)
    /\ UNCHANGED <<authstate, drawn, listening, limits, applications, jobSeq, appSeq>>

\* skill.js:636-664  DELETE /jobs/:id: DELETE FROM jobs WHERE id = $1, for any
\* employer; the applications of the job go with it (ON DELETE CASCADE)
DeleteJob(userId, id) ==
    /\ proc = "serving"
    /\ LET rows == {j \in jobs : j.id = id}
       IN  /\ jobs' = jobs \ rows
           /\ applications' = {a \in applications : a.job_id # id}
           /\ Called("delete", userId, Some(id), IF rows = {} THEN 404 ELSE 200)
    /\ UNCHANGED <<authstate, drawn, listening, limits, jobSeq, appSeq>>

NextJobs ==
    \/ Startup
    \/ \E u \in EmployerUsers : PostJob(u)
    \/ \E u \in CandidateUsers, j \in {Null} \cup {Some(i) : i \in JobIds} :
           ApplyToJob(u, j)
    \/ \E u \in EmployerUsers, a \in AppIds, s \in StatusUpdates :
           UpdateApplicationStatus(u, a, s)
    \/ \E u \in EmployerUsers, j \in JobIds, b \in JobUpdates : UpdateJob(u, j, b)
    \/ \E u \in EmployerUsers, j \in JobIds : DeleteJob(u, j)

SpecJobs == InitPool /\ [][NextJobs]_vars

(* ======================================================================= *)
(*                               properties                                *)
(* ======================================================================= *)
IsVerify(r) == req[r].kind = "verify" /\ req[r].mobile # Null /\ req[r].otp # Null
IsSend(r) == req[r].kind = "send" /\ ~InvalidMobile(req[r].mobile)
IsRegister(r) == req[r].kind = "register" /\ req[r].mobile # Null
Done(r) == pc[r] = "done"
GotToken(r) == Done(r) /\ Val(res[r]).token # Null
Failed(r, status, error) == Done(r) /\ res[r] = Some(Response(status, Some(error)))
\* the request's UPDATE ... WHERE id has run
Updated(r) == IsVerify(r) /\ (pc[r] = "verify_finish" \/ GotToken(r))
\* the lookup found the submitted code stored for the mobile
Matched(r) == seen[r].otp = req[r].otp
\* no send-otp write has reached the mobile's row since r's lookup
NoIssueSince(r) == seen[r].issue = Some(issue[Val(req[r].mobile)])

\* C1 (as amended): a verify-otp request with both fields returns a token iff
\* the submitted code equals the code stored for the mobile at the lookup and
\* the expiry check runs at a time now <= the stored expiry (the code is
\* expired only when its expiry is strictly before now); once it has
\* succeeded, and until the next send-otp write, the identity has code and
\* expiry NULL and is_verified true.
C1_VerifySucceedsIffMatchedAndNotExpired ==
    \A r \in Reqs : (IsVerify(r) /\ Done(r)) =>
        /\ GotToken(r) <=>
              (/\ Matched(r)
               /\ seen[r].checkedAt # Null /\ seen[r].exp # Null
               /\ Val(seen[r].checkedAt) <= Val(seen[r].exp))
        /\ (GotToken(r) /\ NoIssueSince(r)) =>
              \A u \in RowsOf(Val(req[r].mobile)) :
                  u.otp = Null /\ u.otp_expires_at = Null /\ u.is_verified

\* C1 as stated: ... iff the code matches and now < the stored expiry.
C1_AsStated_StrictlyBeforeExpiry ==
    \A r \in Reqs : (IsVerify(r) /\ Done(r)) =>
        (GotToken(r) <=>
            (/\ Matched(r)
             /\ seen[r].checkedAt # Null /\ seen[r].exp # Null
             /\ Val(seen[r].checkedAt) < Val(seen[r].exp)))

\* a verify-otp succeeded with the expiry check running exactly at the expiry
C1_Witness_AcceptedAtExpiry ==
    \E r \in Reqs :
        /\ IsVerify(r) /\ GotToken(r) /\ Matched(r) /\ NoIssueSince(r)
        /\ seen[r].checkedAt = seen[r].exp
        /\ \E u \in RowsOf(Val(req[r].mobile)) : u.otp = Null /\ u.is_verified

\* C2: a stored code is single-use: no two verify-otp requests that matched
\* the same write of the code both receive a token.
C2_CodeIsSingleUse ==
    \A r1, r2 \in Reqs :
        (/\ r1 # r2 /\ IsVerify(r1) /\ IsVerify(r2)
         /\ req[r1].mobile = req[r2].mobile
         /\ seen[r1].issue = seen[r2].issue
         /\ GotToken(r1))
        => ~GotToken(r2)

\* the requests that have reached the store for mobile m
Touching(m) == {r \in Reqs : pc[r] # "idle" /\ req[r].mobile = Some(m)}

\* C3: when two (or more) concurrent send-otp calls for one mobile, seen
\* before or not, have all finished, the store holds exactly one row for the
\* mobile, and its code and expiry are those of the call whose write landed last.
C3_ConcurrentSendsLeaveOneRowLastWriteWins ==
    \A m \in AllMobiles :
        (/\ Cardinality(Touching(m)) >= 2
         /\ \A r \in Touching(m) : IsSend(r) /\ Done(r))
        => /\ Cardinality(RowsOf(m)) = 1
           /\ \E r \in Touching(m) :
                /\ seen[r].issue = Some(issue[m])
                /\ \A u \in RowsOf(m) :
                     u.otp = loc[r].otp /\ u.otp_expires_at = loc[r].otpExpiresAt

\* two send-otp calls for one mobile raced with different codes and both wrote
C3_Witness_TwoSendsDifferentCodes ==
    \E r1, r2 \in Reqs :
        /\ r1 # r2 /\ IsSend(r1) /\ IsSend(r2) /\ Done(r1) /\ Done(r2)
        /\ req[r1].mobile = req[r2].mobile
        /\ loc[r1].otp # loc[r2].otp
        /\ seen[r1].issue # Null /\ seen[r2].issue # Null
        /\ Val(seen[r1].issue) < Val(seen[r2].issue)
        /\ \A u \in RowsOf(Val(req[r1].mobile)) : u.otp = loc[r2].otp

\* C4: only the most recent code is valid: the newest code written by
\* send-otp is still stored unless it was itself verified, that is, the row's
\* code is NULL only if a verify-otp that submitted that newest code has
\* cleared it; a verify-otp whose lookup matched an older code never clears
\* the newer one.
C4_StaleVerifyNeverClearsNewerCode ==
    \A m \in AllMobiles : \A u \in RowsOf(m) : \A s \in Reqs :
        (/\ IsSend(s) /\ req[s].mobile = Some(m)
         /\ seen[s].issue = Some(issue[m])
         /\ u.otp = Null)
        => \E r \in Reqs :
              Updated(r) /\ req[r].mobile = Some(m) /\ req[r].otp = loc[s].otp

C6_OneIdentityPerMobile ==
    /\ \A u1, u2 \in users : u1.mobile = u2.mobile => u1 = u2
    /\ \A r \in Reqs :
        (IsSend(r) /\ Done(r) /\ loc[r].existing # {})
        => /\ {u.id : u \in RowsOf(Val(req[r].mobile))} = loc[r].existing
           /\ Val(res[r]).status = 200
           /\ NoIssueSince(r) =>
                \A u \in RowsOf(Val(req[r].mobile)) :
                    u.otp \in {loc[r].otp, Null}

\* a send-otp overwrote the code of a row that already held another code
C6_Witness_CodeOverwrittenInPlace ==
    \E r \in Reqs :
        /\ IsSend(r) /\ Done(r) /\ loc[r].existing = {1}
        /\ loc[r].otp # Some(generateOTP(0))
        /\ \E u \in RowsOf(Mobile1) : u.id = 1 /\ u.otp = loc[r].otp
        /\ Cardinality(users) = 1

\* C7: a verify-otp whose code matched the stored code at the lookup and whose
\* expiry check runs after the stored expiry answers 400 "OTP expired", and
\* its steps leave every row of users as it was.
C7_ExpiredCodeRejectedAndKept ==
    [][\A r \in Reqs :
        (/\ pc[r] = "verify_expiry" /\ pc'[r] # pc[r]
         /\ Matched(r) /\ seen[r].exp # Null /\ Val(seen[r].exp) < now)
        => /\ users' = users
           /\ pc'[r] = "done"
           /\ res'[r] = Some(Response(400, Some("OTP expired")))]_vars

\* a matching code was rejected as expired and is still stored
C7_Witness_ExpiredCodeStillStored ==
    \E r \in Reqs :
        /\ IsVerify(r) /\ Failed(r, 400, "OTP expired")
        /\ Matched(r) /\ Val(seen[r].exp) < Val(seen[r].checkedAt)
        /\ \E u \in RowsOf(Val(req[r].mobile)) :
             u.otp = req[r].otp /\ u.otp_expires_at = seen[r].exp /\ ~u.is_verified

\* C8: a verify-otp whose code is not the code stored for the mobile (no row
\* for the mobile included) answers 400 "Invalid OTP" and changes no row.
C8_WrongCodeRejectedNoMutation ==
    [][\A r \in Reqs :
        (/\ pc[r] = "idle" /\ pc'[r] # "idle"
         /\ req'[r].kind = "verify" /\ req'[r].mobile # Null /\ req'[r].otp # Null
         /\ \A u \in RowsOf(Val(req'[r].mobile)) : u.otp # req'[r].otp)
        => /\ users' = users
           /\ pc'[r] = "done"
           /\ res'[r] = Some(Response(400, Some("Invalid OTP")))]_vars

\* a wrong code was rejected while the row keeps its own code
C8_Witness_WrongCodeRejected ==
    \E r \in Reqs :
        /\ IsVerify(r) /\ Failed(r, 400, "Invalid OTP")
        /\ req[r].otp = Some(WrongOtp)
        /\ seen[r].otp = Some(generateOTP(0))
        /\ \E u \in RowsOf(Val(req[r].mobile)) : u.otp = seen[r].otp

\* C9: after a verify-otp has succeeded, a second verify-otp with the same
\* mobile and code, with no send-otp write in between, answers 400
\* "Invalid OTP" (not "OTP expired") and gets no token.
C9_SecondVerifyIsInvalidCode ==
    [][\A r1, r2 \in Reqs :
        (/\ r1 # r2 /\ IsVerify(r1) /\ GotToken(r1) /\ NoIssueSince(r1)
         /\ pc[r2] = "idle" /\ pc'[r2] # "idle"
         /\ req'[r2].kind = "verify"
         /\ req'[r2].mobile = req[r1].mobile /\ req'[r2].otp = req[r1].otp)
        => /\ pc'[r2] = "done"
           /\ res'[r2] = Some(Response(400, Some("Invalid OTP")))]_vars

\* the same code was accepted once and then rejected as invalid
C9_Witness_ReplayRejected ==
    \E r1, r2 \in Reqs :
        /\ r1 # r2 /\ IsVerify(r1) /\ IsVerify(r2)
        /\ req[r1].mobile = req[r2].mobile /\ req[r1].otp = req[r2].otp
        /\ GotToken(r1) /\ Failed(r2, 400, "Invalid OTP")
        /\ seen[r2].issue = seen[r1].issue /\ seen[r2].otp = Null

\* C10: of two register calls with the same mobile, sequential or
\* overlapping, at most one creates the identity (201) and every other one
\* answers 400 "User already exists".
C10_SecondRegisterAlreadyExists ==
    \A r1, r2 \in Reqs :
        (/\ r1 # r2 /\ IsRegister(r1) /\ IsRegister(r2)
         /\ req[r1].mobile = req[r2].mobile
         /\ Done(r1) /\ Done(r2))
        => \/ Failed(r1, 400, "User already exists")
           \/ Failed(r2, 400, "User already exists")

Ended(r) == pc[r] \in {"done", "rejected"}

\* C11: a verify-otp that ends with 500 leaves the identity as its lookup
\* found it: same code, same expiry, same is_verified (no send-otp write in
\* between), so the same code can be submitted again.
C11_FailedVerifyLeavesIdentityUntouched ==
    \A r \in Reqs :
        (/\ IsVerify(r) /\ Failed(r, 500, "Failed to verify OTP")
         /\ seen[r].issue # Null /\ NoIssueSince(r))
        => \A u \in RowsOf(Val(req[r].mobile)) :
              /\ u.otp = seen[r].otp
              /\ u.otp_expires_at = seen[r].exp
              /\ Some(u.is_verified) = seen[r].verified

\* C14: a failing audit write never aborts the operation being logged: a
\* runQuery whose statement was executed never throws into the handler's
\* catch block, and a send-otp whose write reached the users table answers
\* as it does when logging works.
C14_AuditFailureNeverAborts ==
    \A r \in Reqs :
        /\ seen[r].abort # Some("audit")
        /\ (IsSend(r) /\ Ended(r) /\ seen[r].issue # Null)
              => res[r] = Some(SendOtpResponse(r))

\* C15: no logEvent call rejects to its caller, whatever fails inside it.
C15_LogEventNeverRejects ==
    \A r \in Reqs : ~seen[r].logRejected

\* the audit status that matches the way a request ended
OutcomeStatus(r) ==
    IF pc[r] = "rejected" \/ Val(res[r]).status = 500 THEN "error"
    ELSE IF Val(res[r]).status = 400 THEN "warning"
    ELSE "success"

\* C16: every send-otp, verify-otp and register that has ended left at least
\* one audit entry that carries the request's mobile and whose status matches
\* the outcome: success for 200 and 201, warning for 400, error for 500.
C16_EveryOperationIsAudited ==
    \A r \in Reqs : Ended(r) =>
        \E i \in DOMAIN auth_logs[r] :
            /\ auth_logs[r][i].mobile = req[r].mobile
            /\ auth_logs[r][i].status = OutcomeStatus(r)

\* C17: every verify-otp that succeeds for a row of role admin answers with
\* profileCompleted true and the redirect hint "/admin/dashboard".
C17_AdminIsProfileComplete ==
    \A r \in Reqs :
        (IsVerify(r) /\ GotToken(r) /\ Val(Val(res[r]).user).role = "admin")
        => /\ Val(res[r]).profileCompleted = Some(TRUE)
           /\ Val(res[r]).redirectTo = Some("/admin/dashboard")

\* C18: the redirect hint of a successful verify-otp is a function of the
\* stored role and of whether a profile exists, and of nothing else:
\* candidate without profile -> "/candidate/profile-form", candidate with
\* profile -> "/candidate/dashboard", employer likewise, admin ->
\* "/admin/dashboard"; every stored role has a hint.
C18_RedirectIsFunctionOfRoleAndProfile ==
    \A r \in Reqs : (IsVerify(r) /\ GotToken(r)) =>
        LET role == Val(Val(res[r]).user).role
            has == Val(Val(res[r]).profileCompleted)
        IN  /\ role \in Roles
            /\ \A u \in RowsOf(Val(req[r].mobile)) : u.role = role
            /\ Val(res[r]).redirectTo =
                 Some(CASE role = "candidate" /\ ~has -> "/candidate/profile-form"
                        [] role = "candidate" /\ has -> "/candidate/dashboard"
                        [] role = "employer" /\ ~has -> "/employer/profile-form"
                        [] role = "employer" /\ has -> "/employer/dashboard"
                        [] role = "admin" -> "/admin/dashboard")

\* a candidate who has no profile yet was sent to the profile form
C18_Witness_CandidateWithoutProfile ==
    \E r \in Reqs :
        /\ IsVerify(r) /\ GotToken(r)
        /\ Val(Val(res[r]).user).role = "candidate"
        /\ Val(res[r]).profileCompleted = Some(FALSE)
        /\ Val(res[r]).redirectTo = Some("/candidate/profile-form")

\* C19: a send-otp that generates its code at time t gives it the expiry
\* t + 10 minutes and stores the two together; a verify-otp whose lookup
\* matched that write of the code passes the expiry check at every time up to
\* and including t + 10 minutes and answers 400 "OTP expired" at every later
\* time.
C19_CodeLivesTenMinutesInclusive ==
    [][\A r \in Reqs :
        /\ (pc[r] = "idle" /\ pc'[r] = "send_write")
              => loc'[r].otpExpiresAt = Some(now + 10 * 60 * 1000)
        /\ (pc[r] = "send_write" /\ pc'[r] = "done" /\ seen'[r].issue # Null)
              => \A u \in users' : u.mobile = Val(req[r].mobile) =>
                    u.otp = loc[r].otp /\ u.otp_expires_at = loc[r].otpExpiresAt
        /\ \A s \in Reqs :
             (/\ pc[r] = "verify_expiry" /\ pc'[r] # pc[r]
              /\ IsSend(s) /\ req[s].mobile = req[r].mobile
              /\ seen[s].issue # Null /\ seen[s].issue = seen[r].issue
              /\ Matched(r) /\ req[r].otp = loc[s].otp)
             => IF now <= Val(loc[s].otpExpiresAt)
                THEN pc'[r] = "verify_update"
                ELSE /\ pc'[r] = "done"
                     /\ res'[r] = Some(Response(400, Some("OTP expired")))]_vars

\* a code generated at time 1 was accepted exactly ten minutes later
C19_Witness_AcceptedTenMinutesAfterIssue ==
    \E r, s \in Reqs :
        /\ IsSend(s) /\ Done(s) /\ seen[s].issue # Null
        /\ loc[s].otpExpiresAt = Some(1 + 10 * 60 * 1000)
        /\ IsVerify(r) /\ GotToken(r) /\ req[r].mobile = req[s].mobile
        /\ req[r].otp = loc[s].otp /\ seen[r].issue = seen[s].issue
        /\ seen[r].checkedAt = loc[s].otpExpiresAt

\* C20: a send-otp whose mobile is absent or shorter than 10 characters answers
\* 400 "Valid mobile number required", writes exactly one audit entry, of
\* status warning, and leaves the users table as it was; a mobile of 10 or
\* more characters passes validation and goes on to the existence check.
C20_ShortMobileRejected ==
    [][\A r \in Reqs :
        (pc[r] = "idle" /\ pc'[r] # "idle" /\ req'[r].kind = "send")
        => IF req'[r].mobile = Null \/ Len(Val(req'[r].mobile)) < 10
           THEN /\ pc'[r] = "done"
                /\ res'[r] = Some(Response(400, Some("Valid mobile number required")))
                /\ users' = users
                /\ Len(auth_logs'[r]) = 1
                /\ auth_logs'[r][1].status = "warning"
                /\ auth_logs'[r][1].mobile = req'[r].mobile
           ELSE /\ pc'[r] = "send_write"
                /\ res'[r] = Null]_vars

\* a 9-character mobile was refused and the stored identity kept its code
C20_Witness_NineCharactersRefused ==
    \E r \in Reqs :
        /\ req[r].kind = "send" /\ req[r].mobile = Some(ShortMobile)
        /\ Failed(r, 400, "Valid mobile number required")
        /\ Len(auth_logs[r]) = 1 /\ auth_logs[r][1].status = "warning"
        /\ RowsOf(ShortMobile) = {}
        /\ \E u \in users : u.otp = Some(generateOTP(0)) /\ u.otp_expires_at = Some(OtpTtlMs)

\* C21: a request that ends with a 400 (missing or short input, wrong code,
\* expired code, mobile already registered) never writes to the users table:
\* each of its steps, the lookup before the expiry check included, leaves
\* every row as it was.
C21_RejectedRequestWritesNothing ==
    [][\A r \in Reqs :
        (/\ pc'[r] # pc[r]
         /\ \/ pc'[r] = "verify_expiry"
            \/ pc'[r] = "done" /\ Val(res'[r]).status = 400)
        => users' = users]_vars

\* a register for a mobile that has an identity was refused and the row is
\* the one the store started with
C21_Witness_RegisterRefusedRowKept ==
    \E r \in Reqs :
        /\ IsRegister(r) /\ Failed(r, 400, "User already exists")
        /\ \E u \in SeedRows : users = {u}

\* the fields of a response body that are present
Shape(response) == {f \in DOMAIN response \ {"status"} : response[f] # Null}

\* C23: the send-otp response does not tell whether the mobile had an
\* identity: a call whose INSERT created the row and a call whose UPDATE found
\* the row, in the same mode, get the same HTTP status (200) and bodies of
\* the same shape.
C23_SendResponseIgnoresExistence ==
    \A r1, r2 \in Reqs :
        (/\ IsSend(r1) /\ Done(r1) /\ seen[r1].issue # Null
         /\ IsSend(r2) /\ Done(r2) /\ seen[r2].issue # Null
         /\ loc[r1].existing = {} /\ loc[r2].existing # {})
        => /\ Val(res[r1]).status = 200
           /\ Val(res[r2]).status = 200
           /\ Shape(Val(res[r1])) = Shape(Val(res[r2]))

\* one call created the identity of its mobile, the other updated the
\* identity of the same mobile, and both were answered
C23_Witness_CreatedAndUpdatedAnswered ==
    \E r1, r2 \in Reqs :
        /\ IsSend(r1) /\ Done(r1) /\ seen[r1].issue # Null /\ loc[r1].existing = {}
        /\ IsSend(r2) /\ Done(r2) /\ seen[r2].issue # Null /\ loc[r2].existing # {}
        /\ req[r1].mobile = req[r2].mobile

\* C25: two concurrent send-otp calls for one mobile, on a healthy store, both
\* end with success whatever the interleaving.
C25_ConcurrentSendsBothSucceed ==
    \A r1, r2 \in Reqs :
        (/\ r1 # r2
         /\ IsSend(r1) /\ Done(r1)
         /\ IsSend(r2) /\ Done(r2)
         /\ req[r1].mobile = req[r2].mobile)
        => /\ Val(res[r1]).status = 200
           /\ Val(res[r2]).status = 200

\* the step tags and statuses of the audit entries a request has written
Steps(r) == [i \in DOMAIN auth_logs[r] |->
                <<auth_logs[r][i].step, auth_logs[r][i].status>>]

\* C26: a successful send-otp has written exactly three audit entries, in
\* this order: the existence check (SEND_OTP_CHECK_USER), the write
\* (SEND_OTP_UPDATE_OTP when the check found the identity,
\* SEND_OTP_INSERT_USER when it did not), and one top-level SEND_OTP success
\* entry; the three tags differ from one another. Each entry follows the store
\* action it describes: between the check and the write only the check's
\* entry exists, and the write's entry exists only once the write has landed.
C26_SendAuditEntriesInOrder ==
    \A r \in Reqs :
        /\ (IsSend(r) /\ pc[r] = "send_write")
            => /\ Steps(r) = <<<<"SEND_OTP_CHECK_USER", "success">>>>
               /\ seen[r].issue = Null
        /\ (IsSend(r) /\ Done(r) /\ Val(res[r]).status = 200)
            => /\ Steps(r) =
                    <<<<"SEND_OTP_CHECK_USER", "success">>,
                      <<IF loc[r].existing # {} THEN "SEND_OTP_UPDATE_OTP"
                        ELSE "SEND_OTP_INSERT_USER", "success">>,
                      <<"SEND_OTP", "success">>>>
               /\ seen[r].issue # Null

\* an update-branch call and an insert-branch call have both succeeded
C26_Witness_BothBranchesAudited ==
    \E r1, r2 \in Reqs :
        /\ IsSend(r1) /\ Done(r1) /\ Val(res[r1]).status = 200
        /\ IsSend(r2) /\ Done(r2) /\ Val(res[r2]).status = 200
        /\ Steps(r1)[2][1] = "SEND_OTP_UPDATE_OTP"
        /\ Steps(r2)[2][1] = "SEND_OTP_INSERT_USER"

\* auth.js:175, 324, 406: the body of the 500 of each route
FailureMessage(kind) ==
    IF kind = "send" THEN "Failed to send OTP"
    ELSE IF kind = "verify" THEN "Failed to verify OTP"
    ELSE "Registration failed"

\* C27: a request in which a store call failed is answered, with status 500
\* and the fixed message of its route, whatever the error was.
C27_PersistenceFailureAnswered500 ==
    \A r \in Reqs :
        (Ended(r) /\ seen[r].abort = Some("store"))
        => /\ Done(r)
           /\ res[r] = Some(Response(500, Some(FailureMessage(req[r].kind))))

\* the claims of the session token a request was answered with
TokenOf(r) == Val(Val(res[r]).token)

\* C29: the step that answers a register with 201 adds exactly one row, the
\* only row of the request's mobile, with is_verified = false and neither
\* code nor expiry; the token of the response carries the id, mobile and
\* role of that row, which is unverified when the token is issued, and has
\* the same claims as a token issued by verify-otp.
C29_RegisterCreatesUnverifiedIdentityWithToken ==
    [][\A r \in Reqs :
        (pc[r] = "register_insert" /\ pc'[r] = "done" /\ Val(res'[r]).status = 201)
        => \E u \in users' \ users :
            /\ users' = users \cup {u}
            /\ {x \in users' : x.mobile = Val(req[r].mobile)} = {u}
            /\ ~u.is_verified /\ u.otp = Null /\ u.otp_expires_at = Null
            /\ TokenOf(r)'.userId = u.id
            /\ TokenOf(r)'.mobile = u.mobile
            /\ TokenOf(r)'.role = u.role
            /\ \A v \in Reqs :
                (IsVerify(v) /\ GotToken(v))
                => DOMAIN TokenOf(v) = DOMAIN TokenOf(r)']_vars

\* a register was answered with a token while its identity is unverified, in
\* a run where a verify-otp was answered with a token too
C29_Witness_TokenForUnverifiedIdentity ==
    \E r, v \in Reqs :
        /\ IsRegister(r) /\ GotToken(r)
        /\ IsVerify(v) /\ GotToken(v)
        /\ \E u \in users : u.id = TokenOf(r).userId /\ ~u.is_verified

\* C30: the role of an identity never changes once the row exists (a
\* send-otp for the mobile that names another role leaves it as it was), and
\* the token, the user object and the redirect hint of a successful
\* verify-otp carry the role stored in the row.
C30_RoleIsImmutableAndUsedByVerify ==
    /\ [](\A v \in Reqs :
            (IsVerify(v) /\ GotToken(v))
            => \E u \in users :
                /\ u.id = TokenOf(v).userId
                /\ TokenOf(v).role = u.role
                /\ Val(Val(res[v]).user).role = u.role
                /\ Val(res[v]).redirectTo =
                       RedirectTo(u.role, Val(Val(res[v]).profileCompleted)))
    /\ [][\A u \in users : \E w \in users' : w.id = u.id /\ w.role = u.role]_vars

\* a send-otp naming the role admin updated the code of an employer, and the
\* verify-otp that then submitted that code got an employer's token
C30_Witness_RequestedRoleIgnored ==
    \E s, v \in Reqs :
        /\ IsSend(s) /\ Done(s) /\ Val(res[s]).status = 200
        /\ loc[s].existing # {} /\ req[s].role = Some("admin")
        /\ IsVerify(v) /\ GotToken(v)
        /\ req[v].mobile = req[s].mobile /\ req[v].otp = loc[s].otp
        /\ seen[v].issue = seen[s].issue
        /\ TokenOf(v).role = "employer"
        /\ \E u \in users : u.mobile = Val(req[s].mobile) /\ u.role = "employer"

\* everything the process has printed: the handlers' own lines and the line
\* logEvent prints for each entry
LogOutput ==
    console \cup UNION {{ConsoleLine(auth_logs[r][i]) : i \in DOMAIN auth_logs[r]} :
                            r \in Reqs}

Carries(line, code) == \E i \in DOMAIN line : line[i] = code

\* whether the code of a successful send-otp is in its response and on the
\* console, or in neither the response nor any log output
Echoed(r) ==
    /\ Val(res[r]).otp = loc[r].otp
    /\ <<"OTP for", Val(req[r].mobile), Val(loc[r].otp)>> \in console
Withheld(r) ==
    /\ Val(res[r]).otp = Null
    /\ \A line \in LogOutput : ~Carries(line, Val(loc[r].otp))

\* C22 as stated: the code of a successful send-otp is echoed in the response
\* and on the console in every mode other than production, and withheld from
\* both in production.
C22_EchoedOutsideProduction ==
    \A r \in Reqs :
        (IsSend(r) /\ Done(r) /\ Val(res[r]).status = 200)
        => IF nodeEnv # "production" THEN Echoed(r) ELSE Withheld(r)

\* C22 (as amended): the code of a successful send-otp is echoed in the
\* response and on the console in development mode only; in every other mode,
\* production included, it is in neither the response nor any log output.
C22_EchoedInDevelopmentOnly ==
    \A r \in Reqs :
        (IsSend(r) /\ Done(r) /\ Val(res[r]).status = 200)
        => IF nodeEnv = "development" THEN Echoed(r) ELSE Withheld(r)

\* a send-otp succeeded in a mode that is neither development nor production
\* and its code was withheld
C22_Witness_WithheldInTestMode ==
    \E r \in Reqs :
        /\ nodeEnv = "test"
        /\ IsSend(r) /\ Done(r) /\ Val(res[r]).status = 200
        /\ Withheld(r)

\* C28: a process started without JWT_SECRET (unset or empty) never serves: it
\* exits at start-up and takes no request; hence every request is handled
\* with the secret configured, and no token is signed with the built-in
\* fallback secret.
C28_NoSecretNoService ==
    \A r \in Reqs :
        /\ Falsy(env["JWT_SECRET"]) => (proc # "serving" /\ pc[r] = "idle")
        /\ proc = "exited" => pc[r] = "idle"
        /\ GotToken(r) => TokenOf(r).key # FallbackSecret

\* a process whose only missing variable is JWT_SECRET has exited without
\* taking a request
C28_Witness_ExitedForMissingSecret ==
    /\ proc = "exited"
    /\ Falsy(env["JWT_SECRET"]) /\ ~Falsy(env["DATABASE_URL"])
    /\ \A r \in Reqs : pc[r] = "idle"

\* the clients request r has checked out
HeldBy(r) == {s \in Clients : pool[s] = r}

\* the clients the running calls of request r hold in their local variables
InUse(r) == {call[r].rqClient, call[r].leClient} \ {0}

\* C24: a client acquired by runQuery or by logEvent is released exactly once
\* when the call exits, whichever way: at every moment a request has checked
\* out exactly the clients its running calls hold, a call that is not
\* running holds none, and nothing is released that was not acquired; once a
\* request has ended it has released every client it acquired and none is
\* checked out in its name.
C24_ClientsReleasedExactlyOnce ==
    \A r \in Reqs :
        /\ HeldBy(r) = InUse(r)
        /\ call[r].rq \in {"none", "connect"} => call[r].rqClient = 0
        /\ call[r].le \in {"none", "connect"} => call[r].leClient = 0
        /\ ledger[r].released <= ledger[r].acquired
        /\ ledger[r].acquired - ledger[r].released = Cardinality(HeldBy(r))
        /\ call[r].ended => /\ HeldBy(r) = {}
                            /\ ledger[r].released = ledger[r].acquired

\* every request has ended, one of them after a runQuery that rethrew with
\* its client and logEvent's client both acquired, and no client is checked out
C24_Witness_AllEndedNothingCheckedOut ==
    /\ \A r \in Reqs : call[r].ended
    /\ \E r \in Reqs : call[r].threw /\ ledger[r].acquired >= 2
    /\ \A s \in Clients : pool[s] = 0

\* C31 as stated: every generated code is a string of 6 characters that
\* stands for a number from 0 to 999999, and every such string can be
\* generated: the lowest draw yields 000000, the highest 999999, and the
\* codes of two neighbouring draws are equal or consecutive.
C31_SixDigitsFromAllZeros ==
    drawn # Null =>
        LET d == Val(drawn)
        IN  /\ Len(d.otp) = 6
            /\ d.n \in 0..(OtpBase + OtpSpan - 1)
            /\ d.k = 0 => d.otp = "000000"
            /\ d.k = Grid - 1 => d.otp = "999999"
            /\ d.k < Grid - 1 => OtpNumber(d.k + 1) - d.n \in {0, 1}

\* C31 (as amended): every generated code is a string of exactly 6 decimal
\* digits whose first digit is not 0, and the codes that can be generated are
\* exactly 100000 to 999999: the lowest draw yields 100000, the highest
\* 999999, and the codes of two neighbouring draws are equal or consecutive.
C31_SixDigitsFromOneHundredThousand ==
    drawn # Null =>
        LET d == Val(drawn)
        IN  /\ Len(d.otp) = 6
            /\ d.otp = ToString(d.n)
            /\ d.n \in OtpBase..(OtpBase + OtpSpan - 1)
            /\ d.k = 0 => d.otp = "100000"
            /\ d.k = Grid - 1 => d.otp = "999999"
            /\ d.k < Grid - 1 => OtpNumber(d.k + 1) - d.n \in {0, 1}

\* the lowest value of Math.random() was drawn and the code is 100000
C31_Witness_LowestCode ==
    /\ drawn # Null
    /\ Val(drawn).k = 0
    /\ Val(drawn).otp = "100000"

\* C32: the audit trail is append-only: every step leaves the entries already
\* written as they are and in place, so the log of a later state extends the
\* log of an earlier one.
C32_AuditTrailAppendOnly ==
    [][\A r \in Reqs :
        /\ Len(auth_logs'[r]) >= Len(auth_logs[r])
        /\ SubSeq(auth_logs'[r], 1, Len(auth_logs[r])) = auth_logs[r]]_vars

\* a request has ended with entries written by more than one of its steps
C32_Witness_EntriesOfSeveralSteps ==
    \E r \in Reqs :
        /\ Done(r) /\ Len(auth_logs[r]) >= 3
        /\ auth_logs[r][1].step # auth_logs[r][3].step

\* C33: no state is reachable in which every client of the pool is held by a
\* runQuery call that waits for logEvent to acquire another one, the state in
\* which no request that holds a client can go on to release it.
\* (the holder of a client is in runQuery, in its try or its catch block, and
\* the logEvent it awaits is waiting for pool.connect())
C33_NeverAllClientsHeldByWaitingRunQuery ==
    ~\A s \in Clients :
        /\ pool[s] \in Reqs
        /\ call[pool[s]].rqClient = s
        /\ call[pool[s]].rq \in {"try_log", "catch_log"}
        /\ call[pool[s]].le = "connect"

\* C35: once the start-up connectivity check has been made and no request is
\* in flight, no client of the pool is checked out.
C35_StartupClientReturned ==
    (/\ listening # "pending"
     /\ \A r \in Reqs : call[r].rq = "none" /\ call[r].le = "none")
    => \A s \in Clients : pool[s] = 0

\* C34: every send-otp, verify-otp and register request whose handler has
\* ended has received an HTTP response, on every path, the paths where the
\* store query fails and the audit write of the error handler fails as well
\* included.
C34_EveryEndedRequestAnswered ==
    \A r \in Reqs : Ended(r) => res[r] # Null

\* C36: the stricter OTP rate limit applies to send-otp as it is mounted: of
\* the send-otp requests of one client, at most 5 are handed to the send-otp
\* handler within any 10-minute window; the others are rejected before they
\* reach it.
C36_AtMostFiveSendOtpPerWindow ==
    \A ip \in Ips : \A i \in DOMAIN reached[ip] :
        Cardinality({j \in DOMAIN reached[ip] :
                        /\ reached[ip][i] <= reached[ip][j]
                        /\ reached[ip][j] < reached[ip][i] + OtpWindowMs}) <= OtpMax

\* userId is the user of the employer profile that posted job job_id
PostedBy(userId, job_id) ==
    \E j \in jobs, p \in employer_profiles :
        j.id = job_id /\ j.employer_id = p.id /\ p.user_id = userId

\* C37: an employer can change the status of an application only if the
\* application is for a job posted by that employer's own profile: a status
\* update that names another employer's application leaves every row of
\* applications as it was.
C37_StatusChangedOnlyByJobOwner ==
    [][\A a \in applications :
          (lastCall'.kind = "status" /\ a \notin applications')
          => PostedBy(lastCall'.user, a.job_id)]_vars

\* C38: an employer can update or delete a job only if the job belongs to
\* that employer's own profile: an update or a delete that names another
\* employer's job leaves every row of jobs as it was.
C38_JobChangedOnlyByOwner ==
    [][\A j \in jobs :
          (lastCall'.kind \in {"update", "delete"} /\ j \notin jobs')
          => PostedBy(lastCall'.user, j.id)]_vars
=============================================================================
